---- MODULE Spec2Model ----
(***************************************************************************)
(* The persistent todo state store of todo-system/todo_core.py: per-project*)
(* JSON documents written with temp file + rename, read under a shared     *)
(* lock, validated against the schema, and swept when stale.               *)
(*                                                                         *)
(* The file system is a directory (path -> inode) and the inodes' contents *)
(* (a sequence of chunks).  Each core function is a sequence of steps of a *)
(* process, one step per system call or statement that another process can *)
(* observe.                                                                *)
(***************************************************************************)
EXTENDS Integers, Sequences, FiniteSets, TLC

VARIABLES dir, data, now, proc

vars == <<dir, data, now, proc>>

(***************************************************************************)
(* Bounds of the model.                                                    *)
(***************************************************************************)
\* longest list of items given to update_todos
MaxLen == 2
\* last value of the clock (days)
MaxClock == 10
\* inodes that can be live at once
MaxIno == 5
\* write calls (update_todos, save_state) one sequential client makes
MaxWrites == 1
\* processes that call the store at the same time
MaxCallers == 2

(***************************************************************************)
(* Configuration (todo_core.py, CONFIGURATION).                            *)
(***************************************************************************)
MAX_STATE_AGE_DAYS == 7
SCHEMA_VERSION == 1

(***************************************************************************)
(* Todo items.  A JSON value given as an item is a dict (isdict) with a    *)
(* set of keys, or something else; the value of an absent key is "".       *)
(***************************************************************************)
required_fields == {"content", "status", "activeForm"}
valid_statuses == {"pending", "in_progress", "completed"}

Todo(c, s, a) ==
    [isdict |-> TRUE, keys |-> required_fields,
     content |-> c, status |-> s, activeForm |-> a]

tA == Todo("A", "pending", "A-ing")
tB == Todo("B", "in_progress", "B-ing")
tC == Todo("C", "completed", "C-ing")
\* {"content": "B"}: status and activeForm missing
tNoStatus == [isdict |-> TRUE, keys |-> {"content"},
              content |-> "B", status |-> "", activeForm |-> ""]
\* all three fields, status outside the enum
tBadStatus == Todo("D", "done", "D-ing")
\* valid by validate_todo, content empty
tEmpty == Todo("", "pending", "E-ing")
\* an item that is not a dict (a JSON string or number)
tNotDict == [isdict |-> FALSE, keys |-> {},
             content |-> "", status |-> "", activeForm |-> ""]

Items == {tA, tB, tC, tNoStatus, tBadStatus}

RECURSIVE SeqsUpTo(_, _)
SeqsUpTo(S, n) ==
    IF n = 0 THEN {<<>>}
    ELSE LET shorter == SeqsUpTo(S, n - 1)
         IN  shorter \cup {Append(s, x) : s \in {t \in shorter : Len(t) = n - 1}, x \in S}

\* the lists handed to update_todos
TodoLists ==
    SeqsUpTo(Items, MaxLen)
      \cup {<<tNotDict, tA>>, <<tEmpty>>, <<tA, tB, tC, tA>>}

validate_todo_NoStatusCheck(todo) ==
    IF ~todo.isdict THEN FALSE
    ELSE IF \E field \in required_fields : field \notin todo.keys THEN FALSE
    ELSE TRUE

validate_todo(todo) ==
    IF ~todo.isdict THEN FALSE
    ELSE IF \E field \in required_fields : field \notin todo.keys THEN FALSE
    ELSE IF todo.status \notin valid_statuses THEN FALSE
    ELSE TRUE

(***************************************************************************)
(* State documents.  A parsed JSON value is a dict (isdict) or not; keys   *)
(* holds which of the optional keys the dict has.  updated_at is kept with *)
(* its form: "iso" (naive ISO-8601, day t), "tz" (ISO-8601 with an offset),*)
(* "text" (a string that is no ISO date), "number" (not a string), "empty" *)
(* (the empty string).                                                     *)
(***************************************************************************)
DocKeys == {"schema_version", "todos", "updated_at"}

Roots == {"/work/a", "/work/b", "/work/c"}

\* os.environ.get("CLAUDE_PROJECT_DIR", os.getcwd()); "" stands for a
\* variable that is not set
project_dir(override, cwd) == IF override # "" THEN override ELSE cwd

get_project_id_Same(root) == "a1b2"

\* hashlib.sha256(cwd).hexdigest()[:16]: one identifier per root (distinct
\* roots are taken to have distinct digests)
get_project_id(root) ==
    CASE root = "/work/a" -> "a1b2"
      [] root = "/work/b" -> "c3d4"
      [] root = "/work/c" -> "e5f6"

\* Path(cwd).name: the last segment of the project directory
get_project_name(root) ==
    CASE root = "/work/a" -> "a"
      [] root = "/work/b" -> "b"
      [] root = "/work/c" -> "c"

get_state_file(root) ==
    CASE get_project_id(root) = "a1b2" -> "todos_a1b2.json"
      [] get_project_id(root) = "c3d4" -> "todos_c3d4.json"
      [] get_project_id(root) = "e5f6" -> "todos_e5f6.json"

Iso(t) == [k |-> "iso", t |-> t]

create_empty_state(root, sid, t) ==
    [isdict |-> TRUE, keys |-> DocKeys,
     schema_version |-> SCHEMA_VERSION,
     project_id |-> get_project_id(root),
     project_name |-> get_project_name(root),
     todos_is_list |-> TRUE, todos |-> <<>>,
     created_at |-> t, updated_at |-> Iso(t),
     session_id |-> sid,
     last_compact |-> FALSE, compact_trigger |-> ""]

\* a JSON value that is not an object, such as [1, 2]
NotADict ==
    [isdict |-> FALSE, keys |-> {},
     schema_version |-> 0, project_id |-> "", project_name |-> "",
     todos_is_list |-> FALSE, todos |-> <<>>,
     created_at |-> 0, updated_at |-> [k |-> "empty", t |-> 0],
     session_id |-> "",
     last_compact |-> FALSE, compact_trigger |-> ""]

validate_state(state) ==
    IF ~state.isdict THEN FALSE
    ELSE IF "schema_version" \notin state.keys THEN FALSE
    ELSE LET todos == IF "todos" \in state.keys THEN state.todos ELSE <<>>
             islist == IF "todos" \in state.keys THEN state.todos_is_list ELSE TRUE
         IN  IF ~islist THEN FALSE
             ELSE \A i \in 1..Len(todos) : validate_todo(todos[i])

(***************************************************************************)
(* Serialisation.  json.dump writes the document as text in two chunks:    *)
(* the first holds schema_version, project_id and todos, the second the    *)
(* timestamps, session_id and the advisory flags.  A file parses only when *)
(* it holds exactly a first chunk followed by a second chunk of text.      *)
(***************************************************************************)
Part1(d) ==
    [NotADict EXCEPT !.isdict = d.isdict,
                     !.keys = d.keys \cap {"schema_version", "todos"},
                     !.schema_version = d.schema_version,
                     !.project_id = d.project_id,
                     !.project_name = d.project_name,
                     !.todos_is_list = d.todos_is_list,
                     !.todos = d.todos]

Part2(d) ==
    [NotADict EXCEPT !.isdict = d.isdict,
                     !.keys = d.keys \cap {"updated_at"},
                     !.created_at = d.created_at,
                     !.updated_at = d.updated_at,
                     !.session_id = d.session_id,
                     !.last_compact = d.last_compact,
                     !.compact_trigger = d.compact_trigger]

Chunk(n, d) == [part |-> n, enc |-> "utf8", v |-> IF n = 1 THEN Part1(d) ELSE Part2(d)]

json_dump(d) == <<Chunk(1, d), Chunk(2, d)>>

\* bytes that are not valid UTF-8
BadBytes == <<[part |-> 1, enc |-> "bytes", v |-> NotADict]>>

Decodable(content) == \A i \in 1..Len(content) : content[i].enc = "utf8"

Parses(content) ==
    /\ Len(content) = 2
    /\ content[1].part = 1
    /\ content[2].part = 2
    /\ content[1].v.isdict = content[2].v.isdict

json_load_FirstChunkOnly(content) == content[1].v

json_load(content) ==
    [content[1].v EXCEPT !.keys = content[1].v.keys \cup content[2].v.keys,
                         !.created_at = content[2].v.created_at,
                         !.updated_at = content[2].v.updated_at,
                         !.session_id = content[2].v.session_id,
                         !.last_compact = content[2].v.last_compact,
                         !.compact_trigger = content[2].v.compact_trigger]

(***************************************************************************)
(* Documents found on disk or handed to save_state.                        *)
(***************************************************************************)
StoredDoc(todos) ==
    [create_empty_state("/work/a", "s0", MaxClock - 3)
        EXCEPT !.todos = todos, !.updated_at = Iso(MaxClock - 2)]

dFull == StoredDoc(<<tA, tB, tC, tA>>)
dDone == StoredDoc(<<tC>>)
dNone == StoredDoc(<<>>)
dFlag == [StoredDoc(<<tB>>) EXCEPT !.last_compact = TRUE, !.compact_trigger = "auto"]
\* schema_version 2
dVersion2 == [StoredDoc(<<tA>>) EXCEPT !.schema_version = 2]
\* no schema_version key
dNoVersion == [StoredDoc(<<tA>>) EXCEPT !.keys = DocKeys \ {"schema_version"},
                                        !.schema_version = 0]
\* an item with a status outside the enum after a valid pending one
dBadItem == StoredDoc(<<tA, tBadStatus>>)
\* no todos key
dNoTodos == [StoredDoc(<<>>) EXCEPT !.keys = DocKeys \ {"todos"}]
\* todos is a string, not a list
dTodosNotList == [StoredDoc(<<>>) EXCEPT !.todos_is_list = FALSE]

ValidDocs == {dFull, dDone, dNone, dFlag}
SaveDocs == ValidDocs \cup {dBadItem, dNoVersion}

\* what the state file can hold before any call: parseable documents,
\* a JSON value that is no object, text cut short, an empty file, bad bytes
InitContents ==
    {json_dump(d) : d \in ValidDocs \cup {dVersion2, dNoVersion, dBadItem,
                                          dNoTodos, dTodosNotList, NotADict}}
      \cup {<<Chunk(1, dFull)>>, <<>>, BadBytes}

(***************************************************************************)
(* Processes.  A process is one invocation of the program (a hook or a     *)
(* test client); root and sid are its CLAUDE_PROJECT_DIR and               *)
(* CLAUDE_SESSION_ID.  fd is the inode of the file it has open (0: none),  *)
(* lock the flock it holds on it.  hist, snap and after are history: the   *)
(* last save_state call, the files as they were when atomic_write or a     *)
(* sweep began, and the processes whose call had ended when a load began   *)
(***************************************************************************)
NoRead == [k |-> "none", v |-> NotADict]

NoCall == [op |-> "none", retb |-> FALSE, arg |-> NotADict]

\* history: the directory and the files' contents when a sweep began
NoSnap == [dir |-> <<>>, data |-> <<>>]

\* the text generate_todo_context returns: the incomplete items it lists
\* under <current-todos> and whether the <todo-protocol> reminder follows
NoContext == [todos |-> <<>>, reminder |-> FALSE]

\* the JSON text a handler finds on stdin: kind is "notjson", "object" or
\* "other" (a JSON value that is no object); for an object, the fields the
\* handlers look at, each with the default of its .get() when it is absent
NoInput ==
    [kind |-> "notjson", stop_hook_active |-> FALSE, tool_name |-> "",
     tool_input |-> "absent", todos_kind |-> "absent", todos |-> <<>>,
     trigger |-> "unknown", source |-> "unknown", prompt |-> "absent"]

\* the event the process before this one handled
NoEvent == [hook |-> "none", inp |-> NoInput]

IdleProc(root, sid, budget) ==
    [op |-> "idle", pc |-> "idle", root |-> root, sid |-> sid,
     path |-> "", items |-> <<>>, arg |-> NotADict, state |-> NotADict,
     rd |-> NoRead, fd |-> 0, fd2 |-> 0, off |-> 0, lock |-> "none", tmp |-> "",
     retb |-> FALSE, retl |-> <<>>, budget |-> budget, hist |-> NoCall,
     files |-> <<>>, cutoff |-> 0, removed |-> 0, snap |-> NoSnap, after |-> {},
     phase |-> 0, ctx |-> NoContext, hook |-> "none", hpc |-> "none",
     inp |-> NoInput, out |-> "", code |-> -1, hinc |-> <<>>, hstate |-> NotADict,
     prev |-> NoEvent]

Procs == DOMAIN proc

\* positions at which a process has no call in flight
Resting == {"idle", "done", "raised", "crashed"}

Range(f) == {f[x] : x \in DOMAIN f}

Live(d, pr) ==
    (Range(d) \cup {pr[q].fd : q \in DOMAIN pr} \cup {pr[q].fd2 : q \in DOMAIN pr}) \ {0}

\* the contents of the inodes still linked or open
Collect(dt, d, pr) == [i \in Live(d, pr) \cap DOMAIN dt |-> dt[i]]

HasFreeIno == (1..MaxIno) \ Live(dir, proc) # {}

FreshIno ==
    CHOOSE i \in 1..MaxIno :
        /\ i \notin Live(dir, proc)
        /\ \A j \in 1..(i - 1) : j \in Live(dir, proc)

(***************************************************************************)
(* log_debug(message), todo_core.py 50-67: a line is appended to debug.log *)
(* in the state directory, which is created when it is not there; a failure*)
(* of the logging is swallowed.  The program never reads the log: the model*)
(* keeps that the file exists, with LogText standing for its lines, and    *)
(* takes it to stay below the size at which it is rotated.                 *)
(***************************************************************************)
LogFile == "debug.log"

LogText == <<[part |-> 0, enc |-> "utf8", v |-> NotADict]>>

\* the files d, dt after a log_debug call
log_debug(d, dt, pr) ==
    LET free == (1..MaxIno) \ Live(d, pr)
    IN  IF LogFile \in DOMAIN d \/ free = {}
          THEN [dir |-> d, data |-> dt]
          ELSE LET i == CHOOSE k \in free : \A j \in free : k <= j
               IN  [dir |-> d @@ (LogFile :> i),
                    data |-> [k \in DOMAIN dt \cup {i} |-> IF k = i THEN LogText ELSE dt[k]]]

TmpNames_Shared == [i \in 1..8 |-> ".tmp.json"]

TmpNames == <<".tmp_1.json", ".tmp_2.json", ".tmp_3.json", ".tmp_4.json",
              ".tmp_5.json", ".tmp_6.json", ".tmp_7.json", ".tmp_8.json">>

ExHeldByOther_Always(p, i) == TRUE

\* another open file description holds LOCK_EX on inode i
ExHeldByOther(p, i) ==
    \E q \in Procs \ {p} : proc[q].fd = i /\ proc[q].lock = "ex"

HeldByOther(p, i) ==
    \E q \in Procs \ {p} : proc[q].fd = i /\ proc[q].lock # "none"

\* datetime.now(): the clock read, which may have advanced since the last read
ClockReads == {t \in {now, now + 1} : t <= MaxClock}

(***************************************************************************)
(* safe_read(filepath), todo_core.py 175-188.                              *)
(***************************************************************************)
sr_exists(p) ==
    /\ proc[p].pc = "sr_exists"
    /\ IF proc[p].path \in DOMAIN dir
         THEN proc' = [proc EXCEPT ![p].pc = "sr_open"]
         ELSE proc' = [proc EXCEPT ![p].pc = "sr_ret", ![p].rd = NoRead]
    /\ UNCHANGED <<dir, data, now>>

\* open(filepath, "r"); the file may have been unlinked since the check:
\* FileNotFoundError is an IOError, caught, None returned
sr_open(p) ==
    /\ proc[p].pc = "sr_open"
    /\ IF proc[p].path \in DOMAIN dir
         THEN /\ proc' = [proc EXCEPT ![p].pc = "sr_lock", ![p].fd = dir[proc[p].path]]
              /\ UNCHANGED <<dir, data>>
         ELSE /\ proc' = [proc EXCEPT ![p].pc = "sr_ret", ![p].rd = NoRead]
              /\ dir' = log_debug(dir, data, proc').dir
              /\ data' = log_debug(dir, data, proc').data
    /\ UNCHANGED now

\* fcntl.flock(LOCK_SH) blocks while another open file holds LOCK_EX
sr_lock(p) ==
    /\ proc[p].pc = "sr_lock"
    /\ ~ExHeldByOther(p, proc[p].fd)
    /\ proc' = [proc EXCEPT ![p].pc = "sr_read", ![p].lock = "sh"]
    /\ UNCHANGED <<dir, data, now>>

\* json.load(f).  Undecodable bytes raise UnicodeDecodeError, which is
\* neither JSONDecodeError nor IOError and leaves safe_read; text that
\* is no JSON raises JSONDecodeError, which is logged, and None is returned.  Leaving the
\* with block closes the file and drops the lock.
sr_read(p) ==
    /\ proc[p].pc = "sr_read"
    /\ LET content == data[proc[p].fd]
       IN  proc' =
             IF ~Decodable(content)
               THEN [proc EXCEPT ![p].pc = "sr_ret", ![p].fd = 0, ![p].lock = "none",
                                 ![p].rd = [k |-> "raise", v |-> NotADict]]
             ELSE IF Parses(content)
               THEN [proc EXCEPT ![p].pc = "sr_unlock",
                                 ![p].rd = [k |-> "data", v |-> json_load(content)]]
             ELSE [proc EXCEPT ![p].pc = "sr_ret", ![p].fd = 0, ![p].lock = "none",
                               ![p].rd = NoRead]
    /\ LET content == data[proc[p].fd]
           kept == Collect(data, dir, proc')
       IN  IF Decodable(content) /\ ~Parses(content)
             THEN /\ dir' = log_debug(dir, kept, proc').dir
                  /\ data' = log_debug(dir, kept, proc').data
             ELSE /\ dir' = dir
                  /\ data' = kept
    /\ UNCHANGED now

sr_unlock(p) ==
    /\ proc[p].pc = "sr_unlock"
    /\ proc' = [proc EXCEPT ![p].pc = "sr_ret", ![p].fd = 0, ![p].lock = "none"]
    /\ data' = Collect(data, dir, proc')
    /\ UNCHANGED <<dir, now>>

safe_read(p) ==
    sr_exists(p) \/ sr_open(p) \/ sr_lock(p) \/ sr_read(p) \/ sr_unlock(p)

(***************************************************************************)
(* load_state(), todo_core.py 209-218, and the views built on it.          *)
(***************************************************************************)
LoadOps ==
    {"load_state", "get_incomplete_todos", "get_in_progress_todos", "update_todos",
     "generate_todo_context"}

\* the exception of safe_read passes through load_state and its caller
load_state_raise(p) ==
    /\ proc[p].pc = "sr_ret"
    /\ proc[p].op \in LoadOps
    /\ proc[p].rd.k = "raise"
    /\ proc' = [proc EXCEPT ![p].pc = "raised", ![p].rd = NoRead]
    /\ UNCHANGED <<dir, data, now>>

load_state_fresh_Persisting(p) ==
    /\ proc[p].pc = "sr_ret"
    /\ proc[p].op \in LoadOps
    /\ proc[p].rd.k = "none" \/ (proc[p].rd.k = "data" /\ ~validate_state(proc[p].rd.v))
    /\ \E t \in ClockReads :
         /\ now' = t
         /\ proc' = [proc EXCEPT ![p].pc = "ls_ret", ![p].rd = NoRead,
                                 ![p].state = create_empty_state(proc[p].root, proc[p].sid, t)]
         /\ IF proc[p].path \in DOMAIN dir
              THEN /\ dir' = dir
                   /\ data' = [data EXCEPT ![dir[proc[p].path]] =
                                  json_dump(create_empty_state(proc[p].root, proc[p].sid, t))]
              ELSE UNCHANGED <<dir, data>>

\* state is None or not validate_state(state): log_debug, create_empty_state()
load_state_fresh(p) ==
    /\ proc[p].pc = "sr_ret"
    /\ proc[p].op \in LoadOps
    /\ proc[p].rd.k = "none" \/ (proc[p].rd.k = "data" /\ ~validate_state(proc[p].rd.v))
    /\ \E t \in ClockReads :
         /\ now' = t
         /\ proc' = [proc EXCEPT ![p].pc = "ls_ret", ![p].rd = NoRead,
                                 ![p].state = create_empty_state(proc[p].root, proc[p].sid, t)]
    /\ dir' = log_debug(dir, data, proc').dir
    /\ data' = log_debug(dir, data, proc').data

load_state_stored_TodosOnly(p) ==
    /\ proc[p].pc = "sr_ret"
    /\ proc[p].op \in LoadOps
    /\ proc[p].rd.k = "data" /\ validate_state(proc[p].rd.v)
    /\ proc' = [proc EXCEPT ![p].pc = "ls_ret", ![p].rd = NoRead,
                            ![p].state =
                                [create_empty_state(proc[p].root, proc[p].sid, now)
                                    EXCEPT !.todos = proc[p].rd.v.todos]]
    /\ UNCHANGED <<dir, data, now>>

\* 212-214: a stored document that passes validate_state is returned as read
load_state_stored(p) ==
    /\ proc[p].pc = "sr_ret"
    /\ proc[p].op \in LoadOps
    /\ proc[p].rd.k = "data" /\ validate_state(proc[p].rd.v)
    /\ proc' = [proc EXCEPT ![p].pc = "ls_ret", ![p].rd = NoRead,
                            ![p].state = proc[p].rd.v]
    /\ UNCHANGED <<dir, data, now>>

load_state(p) ==
    \/ /\ proc[p].pc = "ls_ret"
       /\ proc[p].op = "load_state"
       /\ proc' = [proc EXCEPT ![p].pc = "done"]
       /\ UNCHANGED <<dir, data, now>>
    \/ load_state_fresh(p)
    \/ load_state_stored(p)

\* state.get("todos", [])
TodosOf(state) == IF "todos" \in state.keys THEN state.todos ELSE <<>>

IsIncomplete_PendingOnly(t) == t.status = "pending"

IsIncomplete(t) == t.status \in {"pending", "in_progress"}

IsInProgress(t) == t.status = "in_progress"

get_incomplete_todos(p) ==
    /\ proc[p].pc = "ls_ret"
    /\ proc[p].op = "get_incomplete_todos"
    /\ proc' = [proc EXCEPT ![p].pc = "done",
                            ![p].retl = SelectSeq(TodosOf(proc[p].state), IsIncomplete)]
    /\ UNCHANGED <<dir, data, now>>

get_in_progress_todos(p) ==
    /\ proc[p].pc = "ls_ret"
    /\ proc[p].op = "get_in_progress_todos"
    /\ proc' = [proc EXCEPT ![p].pc = "done",
                            ![p].retl = SelectSeq(TodosOf(proc[p].state), IsInProgress)]
    /\ UNCHANGED <<dir, data, now>>

(***************************************************************************)
(* generate_todo_context(include_reminder), 292-326: get_incomplete_todos, *)
(* get_in_progress_todos and load_state one after the other (phase counts  *)
(* the loads done), then the text.                                         *)
(***************************************************************************)
generate_todo_context(p) ==
    /\ proc[p].pc = "ls_ret"
    /\ proc[p].op = "generate_todo_context"
    /\ proc' =
         CASE proc[p].phase = 0 ->
                [proc EXCEPT ![p].phase = 1, ![p].pc = "sr_exists",
                             ![p].retl = SelectSeq(TodosOf(proc[p].state), IsIncomplete)]
           [] proc[p].phase = 1 ->
                [proc EXCEPT ![p].phase = 2, ![p].pc = "sr_exists"]
           [] proc[p].phase = 2 ->
                [proc EXCEPT ![p].phase = 0, ![p].pc = "done",
                             ![p].ctx = [todos |-> proc[p].retl, reminder |-> proc[p].retb]]
    /\ UNCHANGED <<dir, data, now>>

(***************************************************************************)
(* update_todos(todos) 228-238 and save_state(state) 221-225.              *)
(***************************************************************************)
valid_todos(todos) == SelectSeq(todos, validate_todo)

update_todos_Unfiltered(p) ==
    /\ proc[p].pc = "ls_ret"
    /\ proc[p].op = "update_todos"
    /\ proc' = [proc EXCEPT ![p].pc = "ss_stamp",
                            ![p].state.keys = @ \cup {"todos"},
                            ![p].state.todos_is_list = TRUE,
                            ![p].state.todos = proc[p].items]
    /\ UNCHANGED <<dir, data, now>>

update_todos(p) ==
    /\ proc[p].pc = "ls_ret"
    /\ proc[p].op = "update_todos"
    /\ proc' = [proc EXCEPT ![p].pc = "ss_stamp",
                            ![p].state.keys = @ \cup {"todos"},
                            ![p].state.todos_is_list = TRUE,
                            ![p].state.todos = valid_todos(proc[p].items)]
    /\ IF Len(valid_todos(proc[p].items)) # Len(proc[p].items)
         THEN /\ dir' = log_debug(dir, data, proc').dir
              /\ data' = log_debug(dir, data, proc').data
         ELSE UNCHANGED <<dir, data>>
    /\ UNCHANGED now

save_state_NoStamp(p) ==
    /\ proc[p].pc = "ss_stamp"
    /\ \E t \in ClockReads :
         /\ now' = t
         /\ proc' = [proc EXCEPT ![p].pc = "aw_mkstemp",
                                 ![p].path = get_state_file(proc[p].root),
                                 ![p].state.session_id = proc[p].sid]
    /\ UNCHANGED <<dir, data>>

save_state(p) ==
    /\ proc[p].pc = "ss_stamp"
    /\ \E t \in ClockReads :
         /\ now' = t
         /\ proc' = [proc EXCEPT ![p].pc = "aw_mkstemp",
                                 ![p].path = get_state_file(proc[p].root),
                                 ![p].state.keys = @ \cup {"updated_at"},
                                 ![p].state.updated_at = Iso(t),
                                 ![p].state.session_id = proc[p].sid]
    /\ UNCHANGED <<dir, data>>

(***************************************************************************)
(* atomic_write(filepath, data) 139-172, the path without failure.         *)
(***************************************************************************)
\* the file at path f as it is now
Before(f) ==
    IF f \in DOMAIN dir
      THEN [dir |-> (f :> dir[f]), data |-> (dir[f] :> data[dir[f]])]
      ELSE NoSnap

\* tempfile.mkstemp(dir=filepath.parent): a new, empty file under a name
\* that no file of the directory has
aw_mkstemp(p) ==
    /\ proc[p].pc = "aw_mkstemp"
    /\ HasFreeIno
    /\ LET i == FreshIno
       IN  /\ dir' = dir @@ (TmpNames[i] :> i)
           /\ data' = data @@ (i :> <<>>)
           /\ proc' = [proc EXCEPT ![p].pc = "aw_lock", ![p].fd = i,
                                   ![p].tmp = TmpNames[i],
                                   ![p].snap = Before(proc[p].path)]
    /\ UNCHANGED now

\* fcntl.flock(f.fileno(), fcntl.LOCK_EX) on the temp file
aw_lock(p) ==
    /\ proc[p].pc = "aw_lock"
    /\ ~HeldByOther(p, proc[p].fd)
    /\ proc' = [proc EXCEPT ![p].pc = "aw_dump", ![p].lock = "ex"]
    /\ UNCHANGED <<dir, data, now>>

\* json.dump(data, f): the text reaches the file chunk by chunk
aw_dump(p) ==
    /\ proc[p].pc = "aw_dump"
    /\ LET i == proc[p].fd
           n == Len(data[i]) + 1
       IN  /\ data' = [data EXCEPT ![i] = Append(@, json_dump(proc[p].state)[n])]
           /\ proc' = [proc EXCEPT ![p].pc = IF n = Len(json_dump(proc[p].state))
                                               THEN "aw_flush" ELSE "aw_dump"]
    /\ UNCHANGED <<dir, now>>

aw_flush(p) ==
    /\ proc[p].pc = "aw_flush"
    /\ proc' = [proc EXCEPT ![p].pc = "aw_fsync"]
    /\ UNCHANGED <<dir, data, now>>

aw_fsync(p) ==
    /\ proc[p].pc = "aw_fsync"
    /\ proc' = [proc EXCEPT ![p].pc = "aw_unlock"]
    /\ UNCHANGED <<dir, data, now>>

\* fcntl.flock(LOCK_UN), then the with block closes the file
aw_unlock(p) ==
    /\ proc[p].pc = "aw_unlock"
    /\ proc' = [proc EXCEPT ![p].pc = "aw_move", ![p].fd = 0, ![p].lock = "none"]
    /\ UNCHANGED <<dir, data, now>>

\* os.rename(src, dst): dst names the inode of src, src is gone
Renamed(d, src, dst) ==
    [x \in (DOMAIN d \ {src}) \cup {dst} |-> IF x = dst THEN d[src] ELSE d[x]]

\* shutil.move(temp_path, filepath) when os.rename succeeds; log_debug;
\* return True
aw_move(p) ==
    /\ proc[p].pc = "aw_move"
    /\ proc[p].tmp \in DOMAIN dir
    /\ proc' = [proc EXCEPT ![p].pc = "done", ![p].retb = TRUE, ![p].tmp = ""]
    /\ LET moved == Renamed(dir, proc[p].tmp, proc[p].path)
           kept == Collect(data, moved, proc')
       IN  /\ dir' = log_debug(moved, kept, proc').dir
           /\ data' = log_debug(moved, kept, proc').data
    /\ UNCHANGED now

atomic_write(p) ==
    \/ aw_mkstemp(p) \/ aw_lock(p) \/ aw_dump(p) \/ aw_flush(p)
    \/ aw_fsync(p) \/ aw_unlock(p) \/ aw_move(p)

(***************************************************************************)
(* atomic_write, the paths with a failure.  A system call of lines 146-160 *)
(* can raise OSError; the except clause of line 164 removes the temp file  *)
(* and the one of line 170 returns False.                                  *)
(***************************************************************************)
\* mkstemp raises: no temp file was made, line 170 returns False
aw_mkstemp_fail(p) ==
    /\ proc[p].pc = "aw_mkstemp"
    /\ proc' = [proc EXCEPT ![p].pc = "done", ![p].retb = FALSE]
    /\ dir' = log_debug(dir, data, proc').dir
    /\ data' = log_debug(dir, data, proc').data
    /\ UNCHANGED now

\* flock, json.dump, flush, fsync or the unlock raise inside the with
\* block, which closes the file
aw_fail(p) ==
    /\ proc[p].pc \in {"aw_lock", "aw_dump", "aw_flush", "aw_fsync", "aw_unlock"}
    /\ proc' = [proc EXCEPT ![p].pc = "aw_except", ![p].fd = 0, ![p].lock = "none"]
    /\ UNCHANGED <<dir, data, now>>

\* if os.path.exists(temp_path): os.unlink(temp_path); raise e -> log_debug,
\* return False
aw_except(p) ==
    /\ proc[p].pc = "aw_except"
    /\ proc' = [proc EXCEPT ![p].pc = "done", ![p].retb = FALSE]
    /\ LET gone == [x \in DOMAIN dir \ {proc[p].tmp} |-> dir[x]]
           kept == Collect(data, gone, proc')
       IN  /\ dir' = log_debug(gone, kept, proc').dir
           /\ data' = log_debug(gone, kept, proc').data
    /\ UNCHANGED now

(***************************************************************************)
(* shutil.move(temp_path, filepath), line 160, when os.rename raises       *)
(* OSError: shutil.move then copies src onto dst with copy2 (copyfile,     *)
(* then copystat) and unlinks src.  copyfile opens dst for writing, which  *)
(* truncates the file in place, and writes the text chunk by chunk.        *)
(***************************************************************************)
aw_move_oserror(p) ==
    /\ proc[p].pc = "aw_move"
    /\ proc' = [proc EXCEPT ![p].pc = "cp_open"]
    /\ UNCHANGED <<dir, data, now>>

\* open(src, "rb"), open(dst, "wb")
cp_open(p) ==
    /\ proc[p].pc = "cp_open"
    /\ proc[p].tmp \in DOMAIN dir
    /\ IF proc[p].path \in DOMAIN dir
         THEN LET i == dir[proc[p].path]
              IN  /\ dir' = dir
                  /\ data' = [data EXCEPT ![i] = <<>>]
                  /\ proc' = [proc EXCEPT ![p].pc = "cp_write", ![p].off = 0,
                                          ![p].fd = dir[proc[p].tmp], ![p].fd2 = i]
         ELSE /\ HasFreeIno
              /\ LET i == FreshIno
                 IN  /\ dir' = dir @@ (proc[p].path :> i)
                     /\ data' = data @@ (i :> <<>>)
                     /\ proc' = [proc EXCEPT ![p].pc = "cp_write", ![p].off = 0,
                                             ![p].fd = dir[proc[p].tmp], ![p].fd2 = i]
    /\ UNCHANGED now

\* bytes a write leaves between the end of the file and its own offset
Hole == [part |-> 0, enc |-> "utf8", v |-> NotADict]

\* content with chunk c written at position n
WriteAt(content, n, c) ==
    [k \in 1..(IF Len(content) > n THEN Len(content) ELSE n) |->
        IF k = n THEN c ELSE IF k <= Len(content) THEN content[k] ELSE Hole]

\* one chunk of src written to dst at the copy's offset; after the last
\* one copyfile closes both files
cp_write(p) ==
    /\ proc[p].pc = "cp_write"
    /\ LET src == data[proc[p].fd]
           n == proc[p].off + 1
       IN  IF n <= Len(src)
             THEN /\ data' = [data EXCEPT ![proc[p].fd2] = WriteAt(@, n, src[n])]
                  /\ proc' = [proc EXCEPT ![p].off = n]
             ELSE /\ proc' = [proc EXCEPT ![p].pc = "cp_stat", ![p].fd = 0, ![p].fd2 = 0]
                  /\ data' = Collect(data, dir, proc')
    /\ UNCHANGED <<dir, now>>

\* copystat(src, dst)
cp_stat(p) ==
    /\ proc[p].pc = "cp_stat"
    /\ proc' = [proc EXCEPT ![p].pc = "cp_unlink"]
    /\ UNCHANGED <<dir, data, now>>

\* os.unlink(src); shutil.move returns and atomic_write returns True
cp_unlink(p) ==
    /\ proc[p].pc = "cp_unlink"
    /\ proc' = [proc EXCEPT ![p].pc = "done", ![p].retb = TRUE]
    /\ LET gone == [x \in DOMAIN dir \ {proc[p].tmp} |-> dir[x]]
           kept == Collect(data, gone, proc')
       IN  /\ dir' = log_debug(gone, kept, proc').dir
           /\ data' = log_debug(gone, kept, proc').data
    /\ UNCHANGED now

\* a call of the copy raises OSError (no permission, no space, ...): the
\* files are closed and shutil.move raises
cp_fail(p) ==
    /\ proc[p].pc \in {"cp_open", "cp_write", "cp_stat", "cp_unlink"}
    /\ proc' = [proc EXCEPT ![p].pc = "aw_except", ![p].fd = 0, ![p].fd2 = 0]
    /\ data' = Collect(data, dir, proc')
    /\ UNCHANGED <<dir, now>>

shutil_move_fallback(p) ==
    \/ aw_move_oserror(p) \/ cp_open(p) \/ cp_write(p)
    \/ cp_stat(p) \/ cp_unlink(p) \/ cp_fail(p)

\* the process is killed: its files are closed, its locks dropped
Crash(p) ==
    /\ proc[p].pc \in {"aw_lock", "aw_dump", "aw_flush", "aw_fsync", "aw_unlock",
                       "aw_move", "cp_open", "cp_write", "cp_stat", "cp_unlink"}
    /\ proc' = [proc EXCEPT ![p].pc = "crashed", ![p].fd = 0, ![p].fd2 = 0,
                            ![p].lock = "none"]
    /\ data' = Collect(data, dir, proc')
    /\ UNCHANGED <<dir, now>>

(***************************************************************************)
(* Calls.  An idle process calls one public function; when the function    *)
(* has returned (done) the process takes the result and is idle again.     *)
(* An uncaught exception (raised) ends the process.                        *)
(***************************************************************************)
Start(p, op) ==
    [proc[p] EXCEPT !.op = op, !.pc = "sr_exists",
                    !.path = get_state_file(proc[p].root),
                    !.items = <<>>, !.arg = NotADict, !.state = NotADict,
                    !.retb = FALSE, !.retl = <<>>]

\* the other processes whose call has ended
Ended(p) == {q \in Procs \ {p} : proc[q].pc \in Resting \ {"idle"}}

CallLoad(p) ==
    /\ proc[p].pc = "idle"
    /\ proc' = [proc EXCEPT ![p] = [Start(p, "load_state") EXCEPT !.after = Ended(p)]]
    /\ UNCHANGED <<dir, data, now>>

CallRead(p) ==
    /\ proc[p].pc = "idle"
    /\ \E op \in {"load_state", "get_incomplete_todos", "get_in_progress_todos"} :
         proc' = [proc EXCEPT ![p] = Start(p, op)]
    /\ UNCHANGED <<dir, data, now>>

\* generate_todo_context(include_reminder); retb holds the argument
CallContext(p) ==
    /\ proc[p].pc = "idle"
    /\ \E include_reminder \in BOOLEAN :
         proc' = [proc EXCEPT ![p] = [Start(p, "generate_todo_context") EXCEPT
                                         !.retb = include_reminder]]
    /\ UNCHANGED <<dir, data, now>>

CallUpdate(p) ==
    /\ proc[p].pc = "idle"
    /\ proc[p].budget > 0
    /\ \E todos \in TodoLists :
         proc' = [proc EXCEPT ![p] = [Start(p, "update_todos") EXCEPT
                                         !.items = todos, !.budget = @ - 1]]
    /\ UNCHANGED <<dir, data, now>>

CallSave(p) ==
    /\ proc[p].pc = "idle"
    /\ proc[p].budget > 0
    /\ \E d \in SaveDocs :
         proc' = [proc EXCEPT ![p] = [Start(p, "save_state") EXCEPT
                                         !.pc = "ss_stamp", !.arg = d, !.state = d,
                                         !.budget = @ - 1]]
    /\ UNCHANGED <<dir, data, now>>

Return(p) ==
    /\ proc[p].pc = "done"
    /\ proc' = [proc EXCEPT ![p] =
                  [IdleProc(proc[p].root, proc[p].sid, proc[p].budget) EXCEPT
                      !.hist = IF proc[p].op = "save_state"
                                 THEN [op |-> proc[p].op, retb |-> proc[p].retb,
                                       arg |-> proc[p].arg]
                                 ELSE NoCall]]
    /\ UNCHANGED <<dir, data, now>>

\* one step of a call on a file whose bytes decode
Run(p) ==
    \/ safe_read(p) \/ load_state(p)
    \/ get_incomplete_todos(p) \/ get_in_progress_todos(p)
    \/ generate_todo_context(p)
    \/ update_todos(p) \/ save_state(p) \/ atomic_write(p)

Step(p) == Run(p) \/ load_state_raise(p)

\* the call returns to a caller that keeps what load_state gave it
ReturnKeep(p) ==
    /\ proc[p].pc = "done"
    /\ proc' = [proc EXCEPT ![p] =
                  [IdleProc(proc[p].root, proc[p].sid, proc[p].budget) EXCEPT
                      !.hist = [op |-> proc[p].op, retb |-> proc[p].retb,
                                arg |-> proc[p].state]]]
    /\ UNCHANGED <<dir, data, now>>

(***************************************************************************)
(* Spec: one client, any state file, calls one after the other.            *)
(***************************************************************************)
StateFileA == get_state_file("/work/a")

InitDisk ==
    \/ dir = <<>> /\ data = <<>>
    \/ \E c \in InitContents : dir = (StateFileA :> 1) /\ data = (1 :> c)

Clients == {"p1"}

Init ==
    /\ InitDisk
    /\ now = MaxClock - 1
    /\ proc = [p \in Clients |-> IdleProc("/work/a", "s1", MaxWrites)]

Next ==
    \E p \in Clients :
        \/ CallRead(p) \/ CallContext(p) \/ CallUpdate(p) \/ CallSave(p) \/ Return(p)
        \/ Step(p)

Spec == Init /\ [][Next]_vars

(***************************************************************************)
(* cleanup_old_states(), todo_core.py 262-284.                             *)
(***************************************************************************)
StateFiles == {get_state_file(r) : r \in Roots}

\* TODO_STATE_DIR.glob("todos_*.json"): the state files of the directory
Matching == DOMAIN dir \cap StateFiles

\* the orders in which glob can yield the files of S
Orders(S) ==
    {o \in [1..Cardinality(S) -> S] : \A i, j \in 1..Cardinality(S) : o[i] = o[j] => i = j}

CallCleanup(p) ==
    /\ proc[p].pc = "idle"
    /\ proc[p].budget > 0
    /\ \E t \in ClockReads, o \in Orders(Matching) :
         /\ now' = t
         /\ proc' = [proc EXCEPT ![p].op = "cleanup_old_states", ![p].pc = "cl_next",
                                 ![p].budget = @ - 1,
                                 ![p].removed = 0,
                                 ![p].cutoff = t - MAX_STATE_AGE_DAYS,
                                 ![p].files = o,
                                 ![p].snap = [dir |-> dir, data |-> data]]
    /\ UNCHANGED <<dir, data>>

\* for state_file in ...: state = safe_read(state_file); return removed
cl_next(p) ==
    /\ proc[p].pc = "cl_next"
    /\ proc[p].op = "cleanup_old_states"
    /\ IF proc[p].files = <<>>
         THEN proc' = [proc EXCEPT ![p].pc = "done"]
         ELSE proc' = [proc EXCEPT ![p].pc = "sr_exists",
                                   ![p].path = Head(proc[p].files),
                                   ![p].files = Tail(proc[p].files)]
    /\ UNCHANGED <<dir, data, now>>

\* what lines 271-275 do with the value safe_read gave:
\*   "skip"   nothing to do for this file (falsy state or updated_at), or
\*            a ValueError caught by the inner except
\*   "abort"  an exception the inner except does not catch (AttributeError
\*            of a non-dict's .get, TypeError of fromisoformat on a non-string
\*            or of comparing an aware with a naive datetime): the outer
\*            except ends the loop
\*   "unlink" updated_dt < cutoff
\* the value safe_read gave makes lines 271-275 raise: both except
\* clauses log
JudgeLogs(rd) ==
    \/ rd.k = "raise"
    \/ rd.k = "data" /\ ~rd.v.isdict
    \/ /\ rd.k = "data" /\ rd.v.isdict /\ "updated_at" \in rd.v.keys
       /\ rd.v.updated_at.k \in {"number", "text", "tz"}

Judge(rd, cutoff) ==
    IF rd.k = "raise" THEN "skip"
    ELSE IF rd.k = "none" THEN "skip"
    ELSE IF ~rd.v.isdict THEN "abort"
    ELSE IF "updated_at" \notin rd.v.keys THEN "skip"
    ELSE LET updated == rd.v.updated_at
         IN  CASE updated.k = "empty" -> "skip"
               [] updated.k = "number" -> "abort"
               [] updated.k = "text" -> "skip"
               [] updated.k = "tz" -> "abort"
               [] updated.k = "iso" -> IF updated.t < cutoff THEN "unlink" ELSE "skip"

cl_check(p) ==
    /\ proc[p].pc = "sr_ret"
    /\ proc[p].op = "cleanup_old_states"
    /\ LET verdict == Judge(proc[p].rd, proc[p].cutoff)
       IN  proc' = [proc EXCEPT ![p].rd = NoRead,
                                ![p].pc = CASE verdict = "skip" -> "cl_next"
                                            [] verdict = "abort" -> "done"
                                            [] verdict = "unlink" -> "cl_unlink"]
    /\ IF JudgeLogs(proc[p].rd)
         THEN /\ dir' = log_debug(dir, data, proc').dir
              /\ data' = log_debug(dir, data, proc').data
         ELSE UNCHANGED <<dir, data>>
    /\ UNCHANGED now

\* state_file.unlink(); removed += 1; log_debug.  A file already gone
\* raises FileNotFoundError, an OSError the inner except catches and logs.
cl_unlink(p) ==
    /\ proc[p].pc = "cl_unlink"
    /\ proc' = IF proc[p].path \in DOMAIN dir
                 THEN [proc EXCEPT ![p].pc = "cl_next", ![p].removed = @ + 1]
                 ELSE [proc EXCEPT ![p].pc = "cl_next"]
    /\ LET gone == [x \in DOMAIN dir \ {proc[p].path} |-> dir[x]]
           kept == Collect(data, gone, proc')
       IN  /\ dir' = log_debug(gone, kept, proc').dir
           /\ data' = log_debug(gone, kept, proc').data
    /\ UNCHANGED now

cleanup_old_states(p) == cl_next(p) \/ cl_check(p) \/ cl_unlink(p)

(***************************************************************************)
(* SpecRead: one client that calls load_state again and again and keeps    *)
(* what the call before gave; nothing is saved.                            *)
(***************************************************************************)
InitRead ==
    /\ InitDisk
    /\ now = MaxClock - 2
    /\ proc = [p \in Clients |-> IdleProc("/work/a", "s1", 0)]

NextRead ==
    \E p \in Clients :
        \/ CallLoad(p) \/ safe_read(p) \/ load_state(p) \/ load_state_raise(p)
        \/ ReturnKeep(p)

SpecRead == InitRead /\ [][NextRead]_vars

(***************************************************************************)
(* SpecSweep: one sweep over a directory of up to three state files.       *)
(***************************************************************************)
SweepDoc(updated) == [StoredDoc(<<tA>>) EXCEPT !.updated_at = updated]

\* updated_at ten days before the last reading of the clock
dStale == SweepDoc(Iso(MaxClock - MAX_STATE_AGE_DAYS - 3))
\* updated_at nine days before it: on the cutoff of a sweep at MaxClock - 2
dEdge == SweepDoc(Iso(MaxClock - MAX_STATE_AGE_DAYS - 2))
dRecent == SweepDoc(Iso(MaxClock - 3))
\* "yesterday": a string that is no ISO date
dTextDate == SweepDoc([k |-> "text", t |-> 0])
\* 12345: not a string
dNumberDate == SweepDoc([k |-> "number", t |-> 0])
\* "...+00:00": timezone-aware, ten days old
dZoneDate == SweepDoc([k |-> "tz", t |-> MaxClock - MAX_STATE_AGE_DAYS - 3])
dEmptyDate == SweepDoc([k |-> "empty", t |-> 0])
dNoDate == [SweepDoc([k |-> "empty", t |-> 0]) EXCEPT !.keys = DocKeys \ {"updated_at"}]

SweepContents ==
    {json_dump(d) : d \in {dStale, dEdge, dRecent, dTextDate, dNumberDate, dZoneDate,
                           dEmptyDate, dNoDate, NotADict}}
      \cup {<<Chunk(1, dStale)>>, BadBytes}

PlainContents == {json_dump(dStale), json_dump(dRecent)}

Sweepers == {"c1"}

InitSweep ==
    /\ \E S \in SUBSET StateFiles :
         /\ dir = [f \in S |-> CASE f = get_state_file("/work/a") -> 1
                                 [] f = get_state_file("/work/b") -> 2
                                 [] f = get_state_file("/work/c") -> 3]
         /\ data \in [{dir[f] : f \in S} ->  SweepContents]
         /\ get_state_file("/work/c") \in S => data[3] \in PlainContents
    /\ now = MaxClock - 2
    /\ proc = [p \in Sweepers |-> IdleProc("/work/a", "s1", 1)]

NextSweep ==
    \E p \in Sweepers :
        \/ CallCleanup(p) \/ cleanup_old_states(p) \/ safe_read(p)

SpecSweep == InitSweep /\ [][NextSweep]_vars

(***************************************************************************)
(* SpecConc: two update_todos calls that overlap in any way, and a reader. *)
(* SpecFault: the same with system calls that fail and processes that are  *)
(* killed.                                                                 *)
(***************************************************************************)
Writers == {"w1", "w2"}

Readers == {"r1"}

\* the list each writer passes
ListsOf(w) ==
    IF w \in {"w1", "a1"} THEN {<<tA, tNoStatus>>, <<tBadStatus>>}
    ELSE {<<tC, tB>>}

CallUpdateOnce(p) ==
    /\ proc[p].pc = "idle"
    /\ proc[p].budget > 0
    /\ \E todos \in ListsOf(p) :
         proc' = [proc EXCEPT ![p] = [Start(p, "update_todos") EXCEPT
                                         !.items = todos, !.budget = @ - 1]]
    /\ UNCHANGED <<dir, data, now>>

\* the clock when the first of the calls begins
SharedBegin == MaxClock - 1

InitShared ==
    /\ \/ dir = <<>> /\ data = <<>>
       \/ dir = (StateFileA :> 1) /\ data = (1 :> json_dump(dFull))
    /\ now = SharedBegin
    /\ proc = [p \in Writers \cup Readers |->
                  IdleProc("/work/a", IF p = "w1" THEN "s1" ELSE "s2",
                           IF p \in Writers THEN 1 ELSE 0)]

NextConc ==
    \/ \E p \in Writers :
          \/ CallUpdateOnce(p)
          \/ safe_read(p) \/ load_state_fresh(p) \/ load_state_stored(p)
          \/ update_todos(p) \/ save_state(p) \/ atomic_write(p)
    \/ \E p \in Readers : CallLoad(p) \/ safe_read(p) \/ load_state(p) \/ Return(p)

SpecConc == InitShared /\ [][NextConc]_vars

\* the writers whose system calls can fail
Faulty == {"w1"}

NextFault ==
    \/ \E p \in Writers :
          \/ CallUpdateOnce(p)
          \/ safe_read(p) \/ load_state_fresh(p) \/ load_state_stored(p)
          \/ update_todos(p) \/ save_state(p) \/ atomic_write(p)
    \/ \E p \in Faulty :
          \/ aw_mkstemp_fail(p) \/ aw_fail(p) \/ aw_except(p)
          \/ shutil_move_fallback(p)
          \/ Crash(p)
    \/ \E p \in Readers : CallLoad(p) \/ safe_read(p) \/ load_state(p) \/ Return(p)

SpecFault == InitShared /\ [][NextFault]_vars

(***************************************************************************)
(* SpecRoots: three processes at once.  a1 runs in /work/b with the        *)
(* override /work/a and calls update_todos; b1 runs in /work/b without     *)
(* override and calls save_state; a2 runs in /work/a without override and  *)
(* calls load_state.                                                       *)
(***************************************************************************)
StateFileB == get_state_file("/work/b")

InitRoots ==
    /\ \E S \in {{}, {StateFileA, StateFileB}} :
          /\ dir = [f \in S |-> IF f = StateFileA THEN 1 ELSE 2]
          /\ data = [i \in {dir[f] : f \in S} |->
                        IF i = 1 THEN json_dump(dFull) ELSE json_dump(dDone)]
    /\ now = MaxClock - 1
    /\ proc = [p \in {"a1", "b1", "a2"} |->
                  CASE p = "a1" -> IdleProc(project_dir("/work/a", "/work/b"), "s1", 1)
                    [] p = "b1" -> IdleProc(project_dir("", "/work/b"), "s2", 1)
                    [] p = "a2" -> IdleProc(project_dir("", "/work/a"), "s3", 0)]

NextRoots ==
    \/ \E p \in {"a1"} :
          \/ CallUpdateOnce(p)
          \/ safe_read(p) \/ load_state_fresh(p) \/ load_state_stored(p)
          \/ update_todos(p) \/ save_state(p) \/ atomic_write(p)
    \/ \E p \in {"b1"} : CallSave(p) \/ save_state(p) \/ atomic_write(p)
    \/ \E p \in {"a2"} : CallLoad(p) \/ safe_read(p) \/ load_state(p) \/ Return(p)

SpecRoots == InitRoots /\ [][NextRoots]_vars

(***************************************************************************)
(* The five handlers (hook_*.py).  A handler is one run of main(): it reads*)
(* the event from stdin, calls functions of todo_core one after the other  *)
(* and exits.  hook is the handler running, hpc the place in main() it has *)
(* reached, inp the text on stdin, out what it printed ("" for nothing,    *)
(* "block" for a block decision, "context" for additionalContext) and code *)
(* its exit status: 0 from sys.exit(0), 1 when an exception left main().   *)
(***************************************************************************)
Hooks == {"session_start", "user_prompt", "post_todowrite", "pre_compact", "stop"}

\* longest run of events of one session
MaxEvents == 2

\* a JSON object on stdin, with the fields f replacing the absent ones
Object(f) == [k \in DOMAIN NoInput |->
                 IF k = "kind" THEN "object"
                 ELSE IF k \in DOMAIN f THEN f[k] ELSE NoInput[k]]

\* a JSON value that is no object: [], 5, null, "text"
NotAnObject == [NoInput EXCEPT !.kind = "other"]

\* the todo lists a TodoWrite event carries
EventLists == {<<>>, <<tB>>, <<tC>>, <<tA, tBadStatus>>}

\* the texts a handler is given: no JSON (empty input included), a JSON
\* value that is no object, the empty object, and objects whose fields are
\* present with a right or a wrong type.  tool_input and todos_kind are
\* "object"/"list" for the right type; todos_kind "string" is a non-empty
\* string, "number" a non-zero number; prompt is "trivial" ("hi"), "skill"
\* ("/deploy it"), "task" ("fix the login page"), "plain" (a longer text
\* with none of the task words) or "other" (a number or null).
Payloads(h) ==
    {NoInput, NotAnObject, Object(<<>>)} \cup
    CASE h = "stop" ->
           {Object([stop_hook_active |-> TRUE])}
      [] h = "post_todowrite" ->
           {Object([tool_name |-> "Bash"]),
            Object([tool_name |-> "TodoWrite"]),
            Object([tool_name |-> "TodoWrite", tool_input |-> "other"]),
            Object([tool_name |-> "TodoWrite", tool_input |-> "object"]),
            Object([tool_name |-> "TodoWrite", tool_input |-> "object",
                    todos_kind |-> "string"]),
            Object([tool_name |-> "TodoWrite", tool_input |-> "object",
                    todos_kind |-> "number"])}
           \cup {Object([tool_name |-> "TodoWrite", tool_input |-> "object",
                         todos_kind |-> "list", todos |-> l]) : l \in EventLists}
      [] h = "pre_compact" ->
           {Object([trigger |-> "manual"])}
      [] h = "session_start" ->
           {Object([source |-> s]) : s \in {"startup", "resume", "compact", "clear"}}
      [] h = "user_prompt" ->
           {Object([prompt |-> s]) : s \in {"trivial", "skill", "task", "plain", "other"}}

\* json.load(sys.stdin) and the first input_data.get(...) of every main():
\* JSONDecodeError is caught and the handler exits 0 ("skip"); a value that
\* is no dict has no .get, the AttributeError leaves main() ("crash")
Parsed(inp) ==
    CASE inp.kind = "notjson" -> "skip"
      [] inp.kind = "other" -> "crash"
      [] inp.kind = "object" -> "go"

\* the handler ends with exit status c, having printed o
Exit(p, c, o) ==
    [proc[p] EXCEPT !.hpc = "exit", !.code = c, !.out = o, !.op = "idle", !.pc = "idle"]

\* the handler calls a function of todo_core that begins with load_state
Invoke(p, op, at) == [Start(p, op) EXCEPT !.hpc = at]

\* dir and data after the step's log_debug call, or unchanged without one
Logging(logs) ==
    IF logs
      THEN /\ dir' = log_debug(dir, data, proc').dir
           /\ data' = log_debug(dir, data, proc').data
      ELSE UNCHANGED <<dir, data>>

\* a fresh process is started for an event; snap keeps the project's state
\* file as it is when the process starts
HookStart(p) ==
    /\ proc[p].pc = "idle"
    /\ proc[p].hook = "none"
    /\ proc[p].budget > 0
    /\ \E h \in Hooks :
         \E i \in Payloads(h) :
            proc' = [proc EXCEPT ![p].hook = h, ![p].hpc = "main", ![p].inp = i,
                                 ![p].out = "", ![p].code = -1, ![p].budget = @ - 1,
                                 ![p].snap = Before(get_state_file(proc[p].root))]
    /\ UNCHANGED <<dir, data, now>>

\* an exception of a todo_core function is caught nowhere in main()
hook_crash(p) ==
    /\ proc[p].hook # "none"
    /\ proc[p].pc = "raised"
    /\ proc' = [proc EXCEPT ![p] = Exit(p, 1, "")]
    /\ UNCHANGED <<dir, data, now>>

\* the process is gone; prev keeps which event it served
HookReturn(p) ==
    /\ proc[p].hpc = "exit"
    /\ proc' = [proc EXCEPT ![p] =
                  [IdleProc(proc[p].root, proc[p].sid, proc[p].budget) EXCEPT
                      !.prev = [hook |-> proc[p].hook, inp |-> proc[p].inp]]]
    /\ UNCHANGED <<dir, data, now>>

(***************************************************************************)
(* hook_stop.py, main() 19-68.                                             *)
(***************************************************************************)
\* 20-31: parse, stop_hook_active, get_incomplete_todos()
stop_main(p) ==
    /\ proc[p].hook = "stop" /\ proc[p].hpc = "main"
    /\ proc' = [proc EXCEPT ![p] =
                  CASE Parsed(proc[p].inp) = "skip" -> Exit(p, 0, "")
                    [] Parsed(proc[p].inp) = "crash" -> Exit(p, 1, "")
                    [] Parsed(proc[p].inp) = "go" ->
                         IF proc[p].inp.stop_hook_active
                           THEN Exit(p, 0, "")
                           ELSE Invoke(p, "get_incomplete_todos", "incomplete")]
    /\ Logging(Parsed(proc[p].inp) = "go" /\ proc[p].inp.stop_hook_active)
    /\ UNCHANGED now

\* 31-32: incomplete = ...; in_progress = get_in_progress_todos()
stop_incomplete(p) ==
    /\ proc[p].hook = "stop" /\ proc[p].hpc = "incomplete" /\ proc[p].pc = "done"
    /\ proc' = [proc EXCEPT ![p] =
                  [Invoke(p, "get_in_progress_todos", "in_progress") EXCEPT
                      !.hinc = proc[p].retl]]
    /\ UNCHANGED <<dir, data, now>>

\* 39-56: if in_progress: print a block decision
StopDecision(in_progress) == IF in_progress # <<>> THEN "block" ELSE ""

\* 34-68: log, decide, exit 0
stop_in_progress(p) ==
    /\ proc[p].hook = "stop" /\ proc[p].hpc = "in_progress" /\ proc[p].pc = "done"
    /\ proc' = [proc EXCEPT ![p] = Exit(p, 0, StopDecision(proc[p].retl))]
    /\ Logging(TRUE)
    /\ UNCHANGED now

hook_stop(p) == stop_main(p) \/ stop_incomplete(p) \/ stop_in_progress(p)

(***************************************************************************)
(* hook_post_todowrite.py, main() 19-50.                                   *)
(***************************************************************************)
\* tool_input.get("todos", []) as update_todos iterates it: a string gives
\* its characters, none of them a dict
TodosGiven(inp) ==
    CASE inp.todos_kind = "absent" -> <<>>
      [] inp.todos_kind = "list" -> inp.todos
      [] inp.todos_kind = "string" -> <<tNotDict, tNotDict>>
      [] inp.todos_kind = "number" -> <<>>

\* what lines 26-39 do with the event: "skip" (exit 0), "crash" (an
\* AttributeError of tool_input.get on a value that is no dict, a TypeError
\* of len(todos) on a number), "empty" (not todos: exit 0), "persist"
PostVerdict(inp) ==
    CASE Parsed(inp) # "go" -> Parsed(inp)
      [] Parsed(inp) = "go" /\ inp.tool_name # "TodoWrite" -> "skip"
      [] Parsed(inp) = "go" /\ inp.tool_name = "TodoWrite" ->
           IF inp.tool_input = "other" THEN "crash"
           ELSE IF inp.tool_input = "absent" THEN "empty"
           ELSE IF inp.todos_kind = "number" THEN "crash"
           ELSE IF TodosGiven(inp) = <<>> THEN "empty"
           ELSE "persist"

\* 20-42: parse, tool_name, todos, update_todos(todos)
post_todowrite_main(p) ==
    /\ proc[p].hook = "post_todowrite" /\ proc[p].hpc = "main"
    /\ LET verdict == PostVerdict(proc[p].inp)
       IN  /\ proc' = [proc EXCEPT ![p] =
                         CASE verdict = "skip" -> Exit(p, 0, "")
                           [] verdict = "crash" -> Exit(p, 1, "")
                           [] verdict = "empty" -> Exit(p, 0, "")
                           [] verdict = "persist" ->
                                [Invoke(p, "update_todos", "update") EXCEPT
                                    !.items = TodosGiven(proc[p].inp)]]
           /\ Logging(verdict \in {"empty", "persist"} \/ proc[p].inp.kind = "notjson")
    /\ UNCHANGED now

\* 44-50: log the outcome, exit 0
post_todowrite_update(p) ==
    /\ proc[p].hook = "post_todowrite" /\ proc[p].hpc = "update" /\ proc[p].pc = "done"
    /\ proc' = [proc EXCEPT ![p] = Exit(p, 0, "")]
    /\ Logging(TRUE)
    /\ UNCHANGED now

hook_post_todowrite(p) == post_todowrite_main(p) \/ post_todowrite_update(p)

(***************************************************************************)
(* hook_pre_compact.py, main() 19-44.                                      *)
(***************************************************************************)
\* 20-29: parse, trigger, state = load_state()
pre_compact_main(p) ==
    /\ proc[p].hook = "pre_compact" /\ proc[p].hpc = "main"
    /\ proc' = [proc EXCEPT ![p] =
                  CASE Parsed(proc[p].inp) = "skip" -> Exit(p, 0, "")
                    [] Parsed(proc[p].inp) = "crash" -> Exit(p, 1, "")
                    [] Parsed(proc[p].inp) = "go" -> Invoke(p, "load_state", "load")]
    /\ Logging(Parsed(proc[p].inp) = "go")
    /\ UNCHANGED now

\* 29-30: state = ...; incomplete = get_incomplete_todos()
pre_compact_load(p) ==
    /\ proc[p].hook = "pre_compact" /\ proc[p].hpc = "load" /\ proc[p].pc = "done"
    /\ proc' = [proc EXCEPT ![p] =
                  [Invoke(p, "get_incomplete_todos", "incomplete") EXCEPT
                      !.hstate = proc[p].state]]
    /\ UNCHANGED <<dir, data, now>>

\* 32: if incomplete:
SavesBeforeCompact(incomplete) == incomplete # <<>>

\* 32-44: stamp last_compact and compact_trigger, save_state(state); or exit
pre_compact_incomplete(p) ==
    /\ proc[p].hook = "pre_compact" /\ proc[p].hpc = "incomplete" /\ proc[p].pc = "done"
    /\ LET state == [proc[p].hstate EXCEPT !.last_compact = TRUE,
                                           !.compact_trigger = proc[p].inp.trigger]
       IN  proc' = [proc EXCEPT ![p] =
                      IF SavesBeforeCompact(proc[p].retl)
                        THEN [Invoke(p, "save_state", "save") EXCEPT
                                 !.pc = "ss_stamp", !.arg = state, !.state = state]
                        ELSE Exit(p, 0, "")]
    /\ Logging(SavesBeforeCompact(proc[p].retl))
    /\ UNCHANGED now

\* 41-44: save_state has returned; exit 0
pre_compact_save(p) ==
    /\ proc[p].hook = "pre_compact" /\ proc[p].hpc = "save" /\ proc[p].pc = "done"
    /\ proc' = [proc EXCEPT ![p] = Exit(p, 0, "")]
    /\ UNCHANGED <<dir, data, now>>

hook_pre_compact(p) ==
    \/ pre_compact_main(p) \/ pre_compact_load(p)
    \/ pre_compact_incomplete(p) \/ pre_compact_save(p)

(***************************************************************************)
(* hook_session_start.py, main() 26-62.                                    *)
(***************************************************************************)
RunsCleanup_Always(source) == TRUE

\* 36: if source == "startup":
RunsCleanup(source) == source = "startup"

\* 27-42: parse, source, cleanup_old_states() on startup, else
\* get_incomplete_todos(); snap keeps the project's state file as the
\* handler found it
session_start_main(p) ==
    /\ proc[p].hook = "session_start" /\ proc[p].hpc = "main"
    /\ CASE Parsed(proc[p].inp) = "skip" ->
              /\ proc' = [proc EXCEPT ![p] = Exit(p, 0, "")]
              /\ UNCHANGED now
         [] Parsed(proc[p].inp) = "crash" ->
              /\ proc' = [proc EXCEPT ![p] = Exit(p, 1, "")]
              /\ UNCHANGED now
         [] Parsed(proc[p].inp) = "go" /\ ~RunsCleanup(proc[p].inp.source) ->
              /\ proc' = [proc EXCEPT ![p] =
                            [Invoke(p, "get_incomplete_todos", "incomplete") EXCEPT
                                !.snap = Before(get_state_file(proc[p].root))]]
              /\ UNCHANGED now
         [] Parsed(proc[p].inp) = "go" /\ RunsCleanup(proc[p].inp.source) ->
              \E t \in ClockReads, o \in Orders(Matching) :
                 /\ now' = t
                 /\ proc' = [proc EXCEPT ![p].op = "cleanup_old_states",
                                         ![p].pc = "cl_next", ![p].hpc = "cleanup",
                                         ![p].removed = 0,
                                         ![p].cutoff = t - MAX_STATE_AGE_DAYS,
                                         ![p].files = o,
                                         ![p].snap = Before(get_state_file(proc[p].root))]
    /\ Logging(Parsed(proc[p].inp) = "go")

\* 37-42: removed = ...; log when removed > 0; get_incomplete_todos()
session_start_cleanup(p) ==
    /\ proc[p].hook = "session_start" /\ proc[p].hpc = "cleanup" /\ proc[p].pc = "done"
    /\ proc' = [proc EXCEPT ![p] =
                  [Invoke(p, "get_incomplete_todos", "incomplete") EXCEPT !.files = <<>>]]
    /\ Logging(proc[p].removed > 0)
    /\ UNCHANGED now

ContextWanted_ResumeOnly(incomplete, source) == source \in {"resume", "compact"}

\* 44: if incomplete or source in ("resume", "compact"):
ContextWanted(incomplete, source) ==
    incomplete # <<>> \/ source \in {"resume", "compact"}

\* 42-62: context = generate_todo_context(include_reminder=True) when there
\* are incomplete todos or the session is resumed or compacted; else exit 0
session_start_incomplete(p) ==
    /\ proc[p].hook = "session_start" /\ proc[p].hpc = "incomplete" /\ proc[p].pc = "done"
    /\ proc' = [proc EXCEPT ![p] =
                  IF ContextWanted(proc[p].retl, proc[p].inp.source)
                    THEN [Invoke(p, "generate_todo_context", "context") EXCEPT
                             !.retb = TRUE, !.hinc = proc[p].retl]
                    ELSE Exit(p, 0, "")]
    /\ UNCHANGED <<dir, data, now>>

\* 47-62: the text is never empty with the reminder in it: print, exit 0
session_start_context(p) ==
    /\ proc[p].hook = "session_start" /\ proc[p].hpc = "context" /\ proc[p].pc = "done"
    /\ proc' = [proc EXCEPT ![p] = Exit(p, 0, "context")]
    /\ UNCHANGED <<dir, data, now>>

hook_session_start(p) ==
    \/ session_start_main(p) \/ session_start_cleanup(p)
    \/ session_start_incomplete(p) \/ session_start_context(p)

(***************************************************************************)
(* hook_user_prompt.py, main() 63-134.                                     *)
(***************************************************************************)
\* what lines 64-84 do with the event: len(prompt) raises TypeError on a
\* value that is no string; a missing prompt is "", shorter than 5
PromptVerdict(inp) ==
    CASE Parsed(inp) # "go" -> Parsed(inp)
      [] Parsed(inp) = "go" /\ inp.prompt = "other" -> "crash"
      [] Parsed(inp) = "go" /\ inp.prompt \in {"absent", "trivial"} -> "trivial"
      [] Parsed(inp) = "go" /\ inp.prompt = "skill" -> "skill"
      [] Parsed(inp) = "go" /\ inp.prompt \in {"task", "plain"} -> "todos"

\* 64-86: parse, prompt, trivial or skill, else get_incomplete_todos()
user_prompt_main(p) ==
    /\ proc[p].hook = "user_prompt" /\ proc[p].hpc = "main"
    /\ LET verdict == PromptVerdict(proc[p].inp)
       IN  /\ proc' = [proc EXCEPT ![p] =
                         CASE verdict = "skip" -> Exit(p, 0, "")
                           [] verdict = "crash" -> Exit(p, 1, "")
                           [] verdict = "trivial" -> Exit(p, 0, "")
                           [] verdict = "skill" -> Exit(p, 0, "context")
                           [] verdict = "todos" ->
                                Invoke(p, "get_incomplete_todos", "incomplete")]
           /\ Logging(verdict \in {"trivial", "skill", "todos"})
    /\ UNCHANGED now

\* 86-87: incomplete = ...; in_progress = get_in_progress_todos()
user_prompt_incomplete(p) ==
    /\ proc[p].hook = "user_prompt" /\ proc[p].hpc = "incomplete" /\ proc[p].pc = "done"
    /\ proc' = [proc EXCEPT ![p] =
                  [Invoke(p, "get_in_progress_todos", "in_progress") EXCEPT
                      !.hinc = proc[p].retl]]
    /\ UNCHANGED <<dir, data, now>>

\* 90-134: <active-todos> when there are incomplete todos, <todo-reminder>
\* when the prompt holds a task word; print when there is a part; exit 0
user_prompt_in_progress(p) ==
    /\ proc[p].hook = "user_prompt" /\ proc[p].hpc = "in_progress" /\ proc[p].pc = "done"
    /\ proc' = [proc EXCEPT ![p] =
                  Exit(p, 0, IF proc[p].hinc # <<>> \/ proc[p].inp.prompt = "task"
                               THEN "context" ELSE "")]
    /\ UNCHANGED <<dir, data, now>>

hook_user_prompt(p) ==
    user_prompt_main(p) \/ user_prompt_incomplete(p) \/ user_prompt_in_progress(p)

(***************************************************************************)
(* SpecHooks: one session of project /work/a, its events handled one after *)
(* the other; the state directory also holds the file of another project,  *)
(* stale or recent.                                                        *)
(***************************************************************************)
\* what the session's own state file can hold
HookContents ==
    {json_dump(dFull), json_dump(dDone), json_dump(dNone), json_dump(dBadItem),
     json_dump(dStale), BadBytes}

Handlers == {"h1"}

\* the clock when the session begins
HooksBegin == MaxClock - 1

InitHooks ==
    /\ \E A \in SUBSET {StateFileA}, B \in SUBSET {StateFileB} :
         /\ dir = [f \in A \cup B |-> IF f = StateFileA THEN 1 ELSE 2]
         /\ data \in [{dir[f] : f \in A \cup B} -> HookContents \cup PlainContents]
         /\ StateFileA \in A => data[1] \in HookContents
         /\ StateFileB \in B => data[2] \in PlainContents
    /\ now = HooksBegin
    /\ proc = [p \in Handlers |-> IdleProc("/work/a", "s1", MaxEvents)]

NextHooks ==
    \E p \in Handlers :
        \/ HookStart(p) \/ HookReturn(p) \/ hook_crash(p)
        \/ hook_stop(p) \/ hook_post_todowrite(p) \/ hook_pre_compact(p)
        \/ hook_session_start(p) \/ hook_user_prompt(p)
        \/ safe_read(p) \/ load_state(p) \/ load_state_raise(p)
        \/ get_incomplete_todos(p) \/ get_in_progress_todos(p)
        \/ generate_todo_context(p) \/ cleanup_old_states(p)
        \/ update_todos(p) \/ save_state(p) \/ atomic_write(p)

SpecHooks == InitHooks /\ [][NextHooks]_vars

(***************************************************************************)
(* SpecValidate: validate_todo and validate_state called on any JSON       *)
(* value, one call after the other.  A status or content of "null" or "number" stands for a     *)
(* value that is no string; the value of a key that is absent is "".       *)
(***************************************************************************)
StatusValues == valid_statuses \cup {"done", "", "PENDING", "null", "number"}

ValidateItems ==
    {tNotDict} \cup
    {[isdict |-> TRUE, keys |-> K,
      content |-> IF "content" \in K THEN c ELSE "",
      status |-> IF "status" \in K THEN s ELSE "",
      activeForm |-> IF "activeForm" \in K THEN a ELSE ""] :
        K \in SUBSET required_fields, c \in {"", "A", "number"},
        a \in {"", "A-ing"}, s \in StatusValues}

\* validate_todo(todo) 99-116: the value returned is kept in retb; a missing
\* field and a status outside the enum are logged
CallValidate(p) ==
    /\ proc[p].pc = "idle"
    /\ \E todo \in ValidateItems :
         /\ proc' = [proc EXCEPT ![p].op = "validate_todo", ![p].pc = "done",
                                 ![p].items = <<todo>>,
                                 ![p].retb = validate_todo(todo)]
         /\ Logging(todo.isdict /\ ~validate_todo(todo))
    /\ UNCHANGED now

\* the documents validate_state is called on
ValidateDocs ==
    {dFull, dDone, dNone, dFlag, dVersion2, dNoVersion, dBadItem, dNoTodos,
     dTodosNotList, NotADict, StoredDoc(<<tNotDict, tBadStatus>>)}

\* all(validate_todo(t) for t in todos) stops at the first item that fails;
\* validate_todo logs when that item is a dict
StateLogs(state) ==
    /\ state.isdict /\ "schema_version" \in state.keys
    /\ "todos" \in state.keys /\ state.todos_is_list
    /\ \E i \in 1..Len(state.todos) :
          /\ ~validate_todo(state.todos[i]) /\ state.todos[i].isdict
          /\ \A j \in 1..(i - 1) : validate_todo(state.todos[j])

\* validate_state(state) 119-131: the value returned is kept in retb
CallValidateState(p) ==
    /\ proc[p].pc = "idle"
    /\ \E state \in ValidateDocs :
         /\ proc' = [proc EXCEPT ![p].op = "validate_state", ![p].pc = "done",
                                 ![p].arg = state,
                                 ![p].retb = validate_state(state)]
         /\ Logging(StateLogs(state))
    /\ UNCHANGED now

Validators == {"v1"}

InitValidate ==
    /\ \/ dir = <<>> /\ data = <<>>
       \/ dir = (LogFile :> 1) /\ data = (1 :> LogText)
    /\ now = MaxClock - 1
    /\ proc = [p \in Validators |-> IdleProc("/work/a", "s1", 0)]

NextValidate ==
    \E p \in Validators : CallValidate(p) \/ CallValidateState(p) \/ Return(p)

SpecValidate == InitValidate /\ [][NextValidate]_vars

(***************************************************************************)
(* SpecRace: a sweep that runs while another process calls update_todos    *)
(* for a project whose state file is old.                                  *)
(***************************************************************************)
Updaters == {"u1"}

InitRace ==
    /\ \E c \in PlainContents, B \in SUBSET {StateFileB} :
         /\ dir = [f \in {StateFileA} \cup B |-> IF f = StateFileA THEN 1 ELSE 2]
         /\ data = [i \in {dir[f] : f \in {StateFileA} \cup B} |->
                       IF i = 1 THEN c ELSE json_dump(dStale)]
    /\ now = MaxClock - 2
    /\ proc = [p \in Updaters \cup Sweepers |->
                  IF p \in Updaters THEN IdleProc("/work/a", "s1", 1)
                                    ELSE IdleProc("/work/b", "s2", 1)]

NextRace ==
    \/ \E p \in Updaters :
          \/ CallUpdateOnce(p)
          \/ safe_read(p) \/ load_state_fresh(p) \/ load_state_stored(p)
          \/ update_todos(p) \/ save_state(p) \/ atomic_write(p)
    \/ \E p \in Sweepers :
          \/ CallCleanup(p) \/ cleanup_old_states(p) \/ safe_read(p)

SpecRace == InitRace /\ [][NextRace]_vars

(***************************************************************************)
(* SpecCompact: a pre-compact handler that runs while another process      *)
(* calls update_todos for the same project.                                *)
(***************************************************************************)
\* hook_pre_compact.py is started for a before-compaction event
CompactStart(p) ==
    /\ proc[p].pc = "idle"
    /\ proc[p].hook = "none"
    /\ proc[p].budget > 0
    /\ \E i \in {Object(<<>>), Object([trigger |-> "manual"])} :
         proc' = [proc EXCEPT ![p].hook = "pre_compact", ![p].hpc = "main",
                              ![p].inp = i, ![p].out = "", ![p].code = -1,
                              ![p].budget = @ - 1]
    /\ UNCHANGED <<dir, data, now>>

InitCompact ==
    /\ \/ dir = <<>> /\ data = <<>>
       \/ \E d \in {dFull, dDone} : dir = (StateFileA :> 1) /\ data = (1 :> json_dump(d))
    /\ now = SharedBegin
    /\ proc = [p \in Updaters \cup Handlers |->
                  IdleProc("/work/a", IF p \in Updaters THEN "s1" ELSE "s2", 1)]

NextCompact ==
    \/ \E p \in Updaters :
          \/ CallUpdateOnce(p)
          \/ safe_read(p) \/ load_state_fresh(p) \/ load_state_stored(p)
          \/ update_todos(p) \/ save_state(p) \/ atomic_write(p)
    \/ \E p \in Handlers :
          \/ CompactStart(p) \/ hook_pre_compact(p)
          \/ safe_read(p) \/ load_state(p) \/ get_incomplete_todos(p)
          \/ save_state(p) \/ atomic_write(p)

SpecCompact == InitCompact /\ [][NextCompact]_vars

(***************************************************************************)
(* SpecLive: MaxCallers processes of one project each make one call,       *)
(* update_todos, save_state, load_state or cleanup_old_states, at any time *)
(* and in any interleaving.  Each process is scheduled again and again: a  *)
(* step of its call that stays possible is eventually taken (weak fairness *)
(* per process).  flock gives no queueing guarantee, so nothing stronger   *)
(* is assumed for a lock that is taken and released over and over.         *)
(***************************************************************************)
CallerNames == <<"a1", "a2", "a3", "a4">>

LiveProcs == {CallerNames[i] : i \in 1..MaxCallers}

\* the calls are made late enough for the stale document to be past the cutoff
InitLive ==
    /\ \/ dir = <<>> /\ data = <<>>
       \/ \E c \in PlainContents : dir = (StateFileA :> 1) /\ data = (1 :> c)
    /\ now = MaxClock
    /\ proc = [p \in LiveProcs |-> IdleProc("/work/a", IF p = "a1" THEN "s1" ELSE "s2", 1)]

\* the steps of the call process p has in flight
Running(p) ==
    \/ safe_read(p) \/ load_state(p)
    \/ update_todos(p) \/ save_state(p) \/ atomic_write(p)
    \/ cleanup_old_states(p)

NextLive ==
    \E p \in LiveProcs :
        \/ CallUpdateOnce(p) \/ CallSave(p) \/ CallLoad(p) \/ CallCleanup(p)
        \/ Running(p)

SpecLive ==
    InitLive /\ [][NextLive]_vars /\ \A p \in LiveProcs : WF_vars(Running(p))

(***************************************************************************)
(* todo-enforcer.py, the prompt hook outside todo-system.  It imports      *)
(* nothing from todo_core: it has its own get_project_id and its own       *)
(* reader, and it writes no file.                                          *)
(***************************************************************************)
\* 24-28: cwd.replace("/", "_").replace("\\", "_").strip("_")[-50:]
enforcer_get_project_id(root) ==
    CASE root = "/work/a" -> "work_a"
      [] root = "/work/b" -> "work_b"
      [] root = "/work/c" -> "work_c"

\* 31-34: TODO_STATE_DIR / f"todos_{project_id}.json"
get_todo_state_file(root) ==
    CASE enforcer_get_project_id(root) = "work_a" -> "todos_work_a.json"
      [] enforcer_get_project_id(root) = "work_b" -> "todos_work_b.json"
      [] enforcer_get_project_id(root) = "work_c" -> "todos_work_c.json"

\* the events the enforcer is given: no JSON, a JSON value that is no
\* object, an object without prompt, "hi", a prompt of ten characters or
\* more, a prompt that is no string
EnforcerPayloads ==
    {NoInput, NotAnObject, Object(<<>>)}
      \cup {Object([prompt |-> s]) : s \in {"trivial", "plain", "other"}}

\* 65-68: the prompt is one of the keywords or shorter than ten characters
is_trivial(inp) == inp.prompt \in {"absent", "trivial"}

\* 85: t.get("status") != "completed"
NotCompleted(t) == ~("status" \in t.keys /\ t.status = "completed")

\* todo-enforcer.py is started for a prompt
CallEnforcer(p) ==
    /\ proc[p].pc = "idle"
    /\ proc[p].budget > 0
    /\ \E i \in EnforcerPayloads :
         proc' = [proc EXCEPT ![p].op = "todo_enforcer", ![p].pc = "te_main",
                              ![p].inp = i, ![p].out = "", ![p].code = -1,
                              ![p].retl = <<>>, ![p].hinc = <<>>,
                              ![p].path = get_todo_state_file(proc[p].root),
                              ![p].after = Ended(p), ![p].budget = @ - 1]
    /\ UNCHANGED <<dir, data, now>>

\* 51-56: json.load(sys.stdin), exit 0 on text that is no JSON;
\* input_data.get("prompt", "").lower() raises AttributeError on a value
\* that is no object or a prompt that is no string
te_main(p) ==
    /\ proc[p].pc = "te_main"
    /\ proc' = CASE Parsed(proc[p].inp) = "skip" ->
                      [proc EXCEPT ![p].pc = "done", ![p].code = 0]
                 [] Parsed(proc[p].inp) = "crash" ->
                      [proc EXCEPT ![p].pc = "raised", ![p].code = 1]
                 [] Parsed(proc[p].inp) = "go" ->
                      IF proc[p].inp.prompt = "other"
                        THEN [proc EXCEPT ![p].pc = "raised", ![p].code = 1]
                        ELSE [proc EXCEPT ![p].pc = "te_exists"]
    /\ UNCHANGED <<dir, data, now>>

\* 40: if state_file.exists(), else return [], ""
te_exists(p) ==
    /\ proc[p].pc = "te_exists"
    /\ proc' = IF proc[p].path \in DOMAIN dir
                 THEN [proc EXCEPT ![p].pc = "te_open"]
                 ELSE [proc EXCEPT ![p].pc = "te_print", ![p].retl = <<>>]
    /\ UNCHANGED <<dir, data, now>>

\* 42: open(state_file, "r"); FileNotFoundError is an IOError: [], ""
te_open(p) ==
    /\ proc[p].pc = "te_open"
    /\ proc' = IF proc[p].path \in DOMAIN dir
                 THEN [proc EXCEPT ![p].pc = "te_load", ![p].fd = dir[proc[p].path]]
                 ELSE [proc EXCEPT ![p].pc = "te_print", ![p].retl = <<>>]
    /\ UNCHANGED <<dir, data, now>>

\* 43-46: json.load(f) with no lock taken; data.get("todos", []).
\* Undecodable bytes (UnicodeDecodeError) and a JSON value that is no
\* object (AttributeError) are caught nowhere; text that is no JSON gives
\* [], "".
te_load(p) ==
    /\ proc[p].pc = "te_load"
    /\ LET content == data[proc[p].fd]
       IN  proc' =
             IF ~Decodable(content)
               THEN [proc EXCEPT ![p].pc = "raised", ![p].code = 1, ![p].fd = 0]
             ELSE IF ~Parses(content)
               THEN [proc EXCEPT ![p].pc = "te_print", ![p].fd = 0, ![p].retl = <<>>]
             ELSE IF ~json_load(content).isdict
               THEN [proc EXCEPT ![p].pc = "raised", ![p].code = 1, ![p].fd = 0]
             ELSE [proc EXCEPT ![p].pc = "te_print", ![p].fd = 0,
                               ![p].retl = TodosOf(json_load(content))]
    /\ data' = Collect(data, dir, proc')
    /\ UNCHANGED <<dir, now>>

\* 61-115: the reminder for a prompt that is not trivial, the
\* <previous-session-todos> block with one line per todo that is not
\* completed (hinc), print when there is a part, exit 0; t.get raises
\* AttributeError on an item that is no object
te_print(p) ==
    /\ proc[p].pc = "te_print"
    /\ LET incomplete == SelectSeq(proc[p].retl, NotCompleted)
       IN  proc' =
             IF \E i \in 1..Len(proc[p].retl) : ~proc[p].retl[i].isdict
               THEN [proc EXCEPT ![p].pc = "raised", ![p].code = 1]
               ELSE [proc EXCEPT ![p].pc = "done", ![p].code = 0,
                                 ![p].hinc = incomplete,
                                 ![p].out = IF ~is_trivial(proc[p].inp) \/ incomplete # <<>>
                                              THEN "context" ELSE ""]
    /\ UNCHANGED <<dir, data, now>>

todo_enforcer(p) == te_main(p) \/ te_exists(p) \/ te_open(p) \/ te_load(p) \/ te_print(p)

(***************************************************************************)
(* SpecEnforcer: a process of project /work/a calls update_todos and the   *)
(* enforcer runs for a prompt of the same project, before, during or       *)
(* after the call.  The state directory can hold a file under the          *)
(* enforcer's name, which no program of the repository writes.             *)
(***************************************************************************)
Enforcers == {"e1"}

EnforcerFileA == get_todo_state_file("/work/a")

\* what a file under the enforcer's name can hold
EnforcerContents == {json_dump(dFull), json_dump(dDone), json_dump(NotADict), <<>>, BadBytes}

InitEnforcer ==
    /\ \E A \in SUBSET {StateFileA}, E \in SUBSET {EnforcerFileA} :
         /\ dir = [f \in A \cup E |-> IF f = StateFileA THEN 1 ELSE 2]
         /\ data \in [{dir[f] : f \in A \cup E} -> {json_dump(dDone)} \cup EnforcerContents]
         /\ StateFileA \in A => data[1] = json_dump(dDone)
         /\ EnforcerFileA \in E => data[2] \in EnforcerContents
    /\ now = SharedBegin
    /\ proc = [p \in Updaters \cup Enforcers |->
                  IdleProc("/work/a", IF p \in Updaters THEN "s1" ELSE "s2", 1)]

NextEnforcer ==
    \/ \E p \in Updaters :
          \/ CallUpdateOnce(p)
          \/ safe_read(p) \/ load_state_fresh(p) \/ load_state_stored(p)
          \/ update_todos(p) \/ save_state(p) \/ atomic_write(p)
    \/ \E p \in Enforcers : CallEnforcer(p) \/ todo_enforcer(p)

SpecEnforcer == InitEnforcer /\ [][NextEnforcer]_vars

(***************************************************************************)
(* What a state file holds.                                                *)
(***************************************************************************)
FileExists(f) == f \in DOMAIN dir

Content(f) == data[dir[f]]

\* the file holds one complete JSON text
Readable(f) == FileExists(f) /\ Decodable(Content(f)) /\ Parses(Content(f))

Persisted(f) == json_load(Content(f))

\* the file holds a JSON object whose todos is a list
HoldsTodoList(f) ==
    /\ Readable(f)
    /\ Persisted(f).isdict
    /\ "todos" \in Persisted(f).keys
    /\ Persisted(f).todos_is_list

Returned(p, op) == proc[p].op = op /\ proc[p].pc = "done"

\* the file at path f as process p found it when its atomic_write began
WasThere(p, f) == f \in DOMAIN proc[p].snap.dir

ContentBefore(p, f) == proc[p].snap.data[proc[p].snap.dir[f]]

\* the positions of a call inside atomic_write
InAtomicWrite ==
    {"aw_mkstemp", "aw_lock", "aw_dump", "aw_flush", "aw_fsync", "aw_unlock",
     "aw_move", "aw_except", "cp_open", "cp_write", "cp_stat", "cp_unlink"}

\* the documents atomic_write was called with so far, and the one on disk
\* at the start
WrittenDocs ==
    {dFull} \cup {proc[w].state : w \in
                    {q \in Writers : proc[q].pc \in InAtomicWrite \cup {"done", "crashed"}}}

(***************************************************************************)
(* C1.  Whatever the writers and the reader do, failing and killed writers *)
(* included, the state file is absent or holds the complete text of one    *)
(* document that was written (the earlier one or a new one), and safe_read *)
(* only ever returns such a document.                                      *)
(***************************************************************************)
C1_TargetAlwaysComplete ==
    /\ FileExists(StateFileA) =>
          \E d \in WrittenDocs : Content(StateFileA) = json_dump(d)
    /\ \A p \in Procs : proc[p].rd.k = "data" => proc[p].rd.v \in WrittenDocs

(***************************************************************************)
(* C2.  atomic_write made its temp file and then failed, and no other      *)
(* writer has started: it returned False and did not raise, the temp file  *)
(* is gone, the state file is as it was before the call, and a load_state  *)
(* begun afterwards returns the document of before the call.               *)
(***************************************************************************)
FailedWrite(w) ==
    /\ Returned(w, "update_todos")
    /\ proc[w].retb = FALSE
    /\ proc[w].tmp # ""

C2_FailedWriteLeavesTargetUntouched ==
    /\ \A w \in Writers : proc[w].pc # "raised"
    /\ (FailedWrite("w1") /\ proc["w2"].pc = "idle") =>
          /\ ~FileExists(proc["w1"].tmp)
          /\ FileExists(StateFileA) <=> WasThere("w1", StateFileA)
          /\ FileExists(StateFileA) =>
                Content(StateFileA) = ContentBefore("w1", StateFileA)
          /\ \A r \in Readers :
                (Returned(r, "load_state") /\ "w1" \in proc[r].after) =>
                    IF WasThere("w1", StateFileA)
                      THEN proc[r].state = json_load(ContentBefore("w1", StateFileA))
                      ELSE proc[r].state.todos = <<>>

(***************************************************************************)
(* C3.  Two update_todos calls on one project overlap in any way: neither  *)
(* raises nor is ever blocked, both return True, and a load_state begun    *)
(* after both returned gives a document that passes validate_state and     *)
(* whose todos are the valid items of one of the two lists.                *)
(***************************************************************************)
C3_ConcurrentUpdatesOneWins ==
    /\ \A w \in Writers :
          /\ proc[w].pc # "raised"
          /\ proc[w].pc \notin Resting => ENABLED Run(w)
          /\ proc[w].pc = "done" => proc[w].retb = TRUE
    /\ \A r \in Readers :
          (Returned(r, "load_state") /\ Writers \subseteq proc[r].after) =>
              /\ validate_state(proc[r].state)
              /\ \E w \in Writers : proc[r].state.todos = valid_todos(proc[w].items)

\* both writers entered atomic_write before either renamed, the second
\* list's writer renamed first, and the later load gives the first list
C3_Witness ==
    /\ \A w \in Writers : Returned(w, "update_todos")
    /\ proc["w1"].snap = proc["w2"].snap
    /\ proc["w1"].items = <<tA, tNoStatus>>
    /\ Returned("r1", "load_state")
    /\ Writers \subseteq proc["r1"].after
    /\ proc["r1"].state.todos = <<tA>>

(***************************************************************************)
(* C4.  update_todos(items) persists as todos exactly the items that pass  *)
(* validate_todo, in their order, and returns True, whatever was dropped.  *)
(***************************************************************************)
C4_UpdatePersistsValidSubsequence ==
    \A p \in Procs :
        Returned(p, "update_todos") =>
            /\ proc[p].retb = TRUE
            /\ HoldsTodoList(proc[p].path)
            /\ Persisted(proc[p].path).todos = SelectSeq(proc[p].items, validate_todo)

C4_Witness ==
    \E p \in Procs :
        /\ Returned(p, "update_todos")
        /\ proc[p].retb = TRUE
        /\ proc[p].items = <<tNoStatus, tB>>
        /\ Persisted(proc[p].path).todos = <<tB>>

(***************************************************************************)
(* C5.  save_state(d) returned True and the same client loads next: the    *)
(* loaded document has d's todos and differs from d in updated_at and      *)
(* session_id only.  As claimed, for every d; as amended, for every d that *)
(* passes validate_state.                                                  *)
(***************************************************************************)
SameButStamp(a, b) ==
    /\ a.isdict = b.isdict
    /\ a.keys \ {"updated_at"} = b.keys \ {"updated_at"}
    /\ a.schema_version = b.schema_version
    /\ a.project_id = b.project_id
    /\ a.todos_is_list = b.todos_is_list
    /\ a.todos = b.todos
    /\ a.created_at = b.created_at
    /\ a.last_compact = b.last_compact
    /\ a.compact_trigger = b.compact_trigger

LoadedAfterSave(p) ==
    /\ Returned(p, "load_state")
    /\ proc[p].hist.op = "save_state"
    /\ proc[p].hist.retb = TRUE

C5_Original_RoundTripEveryDocument ==
    \A p \in Procs :
        LoadedAfterSave(p) =>
            /\ proc[p].state.todos = proc[p].hist.arg.todos
            /\ SameButStamp(proc[p].state, proc[p].hist.arg)

C5_RoundTripValidDocument ==
    \A p \in Procs :
        (LoadedAfterSave(p) /\ validate_state(proc[p].hist.arg)) =>
            /\ proc[p].state.todos = proc[p].hist.arg.todos
            /\ SameButStamp(proc[p].state, proc[p].hist.arg)

C5_Witness ==
    \E p \in Procs :
        /\ LoadedAfterSave(p)
        /\ proc[p].hist.arg = dFlag
        /\ proc[p].state.todos = <<tB>>
        /\ proc[p].state.last_compact
        /\ proc[p].state.session_id # dFlag.session_id
        /\ proc[p].state.updated_at # dFlag.updated_at

(***************************************************************************)
(* C6.  get_incomplete_todos returns the persisted items whose status is   *)
(* pending or in_progress, get_in_progress_todos those whose status is     *)
(* in_progress, in the persisted order.  As claimed, for every persisted   *)
(* todos list; as amended, for the todos of a persisted document that      *)
(* passes validate_state.                                                  *)
(***************************************************************************)
StatusIn(t, S) == t.isdict /\ "status" \in t.keys /\ t.status \in S

WantIncomplete(t) == StatusIn(t, {"pending", "in_progress"})

WantInProgress(t) == StatusIn(t, {"in_progress"})

ViewsMatch(p) ==
    /\ Returned(p, "get_incomplete_todos") =>
          proc[p].retl = SelectSeq(Persisted(proc[p].path).todos, WantIncomplete)
    /\ Returned(p, "get_in_progress_todos") =>
          proc[p].retl = SelectSeq(Persisted(proc[p].path).todos, WantInProgress)

C6_Original_ViewsOfEveryPersistedList ==
    \A p \in Procs : HoldsTodoList(proc[p].path) => ViewsMatch(p)

C6_ViewsOfValidDocument ==
    \A p \in Procs :
        (HoldsTodoList(proc[p].path) /\ validate_state(Persisted(proc[p].path)))
            => ViewsMatch(p)

C6_Witness ==
    \E p \in Procs :
        /\ Returned(p, "get_incomplete_todos")
        /\ HoldsTodoList(proc[p].path)
        /\ Persisted(proc[p].path).todos = <<tA, tB, tC, tA>>
        /\ proc[p].retl = <<tA, tB, tA>>

(***************************************************************************)
(* C11.  load_state returned, the call before it was a load_state too and  *)
(* nothing was saved in between: the two documents are equal in every      *)
(* field, for a stored document and for a fresh one.                       *)
(***************************************************************************)
C11_LoadTwiceEqual ==
    \A p \in Procs :
        (Returned(p, "load_state") /\ proc[p].hist.op = "load_state") =>
            proc[p].state = proc[p].hist.arg

(***************************************************************************)
(* C12.  A step of load_state, get_incomplete_todos, get_in_progress_todos *)
(* or generate_todo_context leaves every file of the state directory as it *)
(* was.  As claimed, every file; as amended, every file but debug.log,     *)
(* which a load that finds no valid document creates or appends to.        *)
(***************************************************************************)
ReadOps ==
    {"load_state", "get_incomplete_todos", "get_in_progress_todos",
     "generate_todo_context"}

\* the files named in F are the same before and after the step
FilesSame(F) ==
    \A f \in F :
        /\ (f \in DOMAIN dir) <=> (f \in DOMAIN dir')
        /\ (f \in DOMAIN dir /\ f \in DOMAIN dir') => data[dir[f]] = data'[dir'[f]]

ReadStep(p) == proc[p].op \in ReadOps /\ proc'[p] # proc[p]

StepOf(p) == proc'[p] # proc[p]

C13_OtherRootsUntouched ==
    /\ [][\A p \in Procs :
             StepOf(p) => FilesSame(StateFiles \ {get_state_file(proc[p].root)})]_vars
    /\ [](\A p, q \in Procs :
             (proc[p].path # "" /\ proc[q].path # "") =>
                 (proc[p].root = proc[q].root <=> proc[p].path = proc[q].path))
    /\ []((/\ Returned("a2", "load_state")
           /\ {"a1", "b1"} \subseteq proc["a2"].after
           /\ Returned("a1", "update_todos"))
          => proc["a2"].state.todos = valid_todos(proc["a1"].items))

\* b1 saved a document with other todos after a1 had written, and a2 still
\* loads a1's list
C13_Witness ==
    /\ Returned("a1", "update_todos")
    /\ Returned("b1", "save_state")
    /\ proc["b1"].arg = dFlag
    /\ FileExists(StateFileB)
    /\ Persisted(StateFileB).todos = <<tB>>
    /\ Persisted(StateFileA).updated_at.t < Persisted(StateFileB).updated_at.t
    /\ Returned("a2", "load_state")
    /\ {"a1", "b1"} \subseteq proc["a2"].after
    /\ proc["a2"].state.todos = <<tA>>

(***************************************************************************)
(* The handlers at their exit.                                             *)
(***************************************************************************)
\* handler h has run to its end in process p
Exited(p, h) == proc[p].hook = h /\ proc[p].hpc = "exit"

\* the persisted document holds an item whose status is in_progress
HoldsInProgress(f) ==
    /\ HoldsTodoList(f)
    /\ \E i \in 1..Len(Persisted(f).todos) : Persisted(f).todos[i].status = "in_progress"

\* the event on stdin has stop_hook_active set
FlagSet(inp) == inp.kind = "object" /\ inp.stop_hook_active

\* the event is a TodoWrite event that carries a list of todos
CarriesList(inp) ==
    /\ inp.kind = "object" /\ inp.tool_name = "TodoWrite"
    /\ inp.tool_input = "object" /\ inp.todos_kind = "list"

(***************************************************************************)
(* C14.  The stop handler prints a block decision exactly when the         *)
(* persisted document holds an in_progress item and stop_hook_active is    *)
(* not set in the input, and its exit status is 0 in every case.           *)
(***************************************************************************)
C14_StopBlocksIffInProgress ==
    \A p \in Procs :
        Exited(p, "stop") =>
            /\ proc[p].code = 0
            /\ proc[p].out = "block" <=>
                  (HoldsInProgress(get_state_file(proc[p].root)) /\ ~FlagSet(proc[p].inp))

(***************************************************************************)
(* C15.  When the task-list-write handler has handled a TodoWrite event    *)
(* that carries list L, the empty list included, the persisted todos are   *)
(* the valid items of L in order; a stop handler that runs right after an  *)
(* event with the empty list prints no block decision.                     *)
(***************************************************************************)
C15_TodoWritePersistsList ==
    \A p \in Procs :
        /\ (Exited(p, "post_todowrite") /\ CarriesList(proc[p].inp)) =>
              /\ HoldsTodoList(get_state_file(proc[p].root))
              /\ Persisted(get_state_file(proc[p].root)).todos
                    = valid_todos(proc[p].inp.todos)
        /\ ( /\ Exited(p, "stop")
             /\ proc[p].prev.hook = "post_todowrite"
             /\ CarriesList(proc[p].prev.inp)
             /\ proc[p].prev.inp.todos = <<>> ) =>
              proc[p].out # "block"

(***************************************************************************)
(* C16.  Every handler ends with exit status 0, whatever the text on its   *)
(* stdin: no JSON, an empty object, an object with missing or wrongly      *)
(* typed fields, a JSON value that is no object.                           *)
(***************************************************************************)
C16_HandlersExitZero ==
    \A p \in Procs : proc[p].hpc = "exit" => proc[p].code = 0

(***************************************************************************)
(* C17.  The retention sweep runs only in a session-start handler whose    *)
(* event has source "startup": cleanup_old_states is in progress in no     *)
(* other handler run, and every step that removes a state file from the    *)
(* directory is the unlink of such a run.                                  *)
(***************************************************************************)
OnStartup(p) ==
    /\ proc[p].hook = "session_start"
    /\ proc[p].inp.kind = "object"
    /\ proc[p].inp.source = "startup"

C17_SweepOnlyOnStartup ==
    /\ [](\A p \in Procs : proc[p].op = "cleanup_old_states" => OnStartup(p))
    /\ [][\A f \in StateFiles :
             (f \in DOMAIN dir /\ f \notin DOMAIN dir') =>
                 \E p \in Procs : OnStartup(p) /\ proc[p].pc = "cl_unlink"
                                               /\ proc'[p].pc = "cl_next"]_vars

\* a startup run has removed the stale file of the other project, and the
\* event before it, of another kind, had left the file in place
C17_Witness ==
    \E p \in Procs :
        /\ Exited(p, "session_start") /\ OnStartup(p)
        /\ proc[p].removed > 0
        /\ ~FileExists(StateFileB)
        /\ proc[p].prev.hook # "none"
        /\ ~(proc[p].prev.hook = "session_start" /\ proc[p].prev.inp.source = "startup")

(***************************************************************************)
(* C18.  When the pre-compact handler has handled a before-compaction      *)
(* event, the persisted document has last_compact set, carries the event's *)
(* trigger and an updated_at read from the clock during the session,       *)
(* whatever the statuses of the persisted todos.                           *)
(***************************************************************************)
C18_PreCompactAlwaysStamps ==
    \A p \in Procs :
        (Exited(p, "pre_compact") /\ proc[p].inp.kind = "object") =>
            /\ Readable(get_state_file(proc[p].root))
            /\ Persisted(get_state_file(proc[p].root)).last_compact
            /\ Persisted(get_state_file(proc[p].root)).compact_trigger = proc[p].inp.trigger
            /\ Persisted(get_state_file(proc[p].root)).updated_at.k = "iso"
            /\ Persisted(get_state_file(proc[p].root)).updated_at.t >= HooksBegin

(***************************************************************************)
(* C19.  Writers are serialized against each other and against readers of  *)
(* the same file: no two atomic_write calls for one target are inside      *)
(* their exclusively locked write section at once, and no safe_read is     *)
(* inside its shared-locked read section while an atomic_write for the     *)
(* same target is inside its write section.                                *)
(***************************************************************************)
\* between flock(LOCK_EX) and flock(LOCK_UN) of atomic_write, 148-157
InWriteSection(p) == proc[p].pc \in InAtomicWrite /\ proc[p].lock = "ex"

\* between flock(LOCK_SH) and flock(LOCK_UN) of safe_read, 182-185
InReadSection(p) == proc[p].pc \in {"sr_read", "sr_unlock"} /\ proc[p].lock = "sh"

C19_WritersSerialized ==
    \A p, q \in Procs :
        (p # q /\ proc[p].path = proc[q].path) =>
            /\ ~(InWriteSection(p) /\ InWriteSection(q))
            /\ ~(InReadSection(p) /\ InWriteSection(q))

(***************************************************************************)
(* C20.  validate_todo(item) returns True exactly when item is a mapping   *)
(* with the three fields content, status and activeForm whose status is    *)
(* pending, in_progress or completed; for every other value it returns     *)
(* False, and it never raises.                                             *)
(***************************************************************************)
WellFormed(item) ==
    /\ item.isdict
    /\ {"content", "status", "activeForm"} \subseteq item.keys
    /\ item.status \in {"pending", "in_progress", "completed"}

C20_ValidateTodoIffWellFormed ==
    \A p \in Procs :
        /\ proc[p].pc # "raised"
        /\ Returned(p, "validate_todo") =>
              (proc[p].retb <=> WellFormed(proc[p].items[1]))

\* an item with an empty content is accepted, and a rejection was logged
C20_Witness ==
    \E p \in Procs :
        /\ Returned(p, "validate_todo")
        /\ proc[p].retb
        /\ proc[p].items[1].content = ""
        /\ FileExists(LogFile)

(***************************************************************************)
(* C21.  An item whose content is the empty string is never persisted:     *)
(* when update_todos(items) has returned, no element of the persisted      *)
(* todos has an empty content.                                             *)
(***************************************************************************)
C21_NoEmptyContentPersisted ==
    \A p \in Procs :
        Returned(p, "update_todos") =>
            /\ HoldsTodoList(proc[p].path)
            /\ \A i \in 1..Len(Persisted(proc[p].path).todos) :
                  Persisted(proc[p].path).todos[i].content # ""

(***************************************************************************)
(* C22.  An invalid item is never written to disk: when a save_state or an *)
(* update_todos call has returned True, every element of the persisted     *)
(* todos has the fields content, status and activeForm and a status of     *)
(* pending, in_progress or completed.                                      *)
(***************************************************************************)
C22_PersistedItemsValid ==
    \A p \in Procs :
        ((Returned(p, "save_state") \/ Returned(p, "update_todos")) /\ proc[p].retb) =>
            /\ Readable(proc[p].path)
            /\ \A i \in 1..Len(Persisted(proc[p].path).todos) :
                  WellFormed(Persisted(proc[p].path).todos[i])

(***************************************************************************)
(* C23.  validate_state(doc) returns True exactly when doc has a           *)
(* schema_version field and doc's todos field is a list every element of   *)
(* which passes validate_todo, for every doc, one with no todos field      *)
(* included.                                                               *)
(***************************************************************************)
WellFormedDoc(doc) ==
    /\ doc.isdict
    /\ "schema_version" \in doc.keys
    /\ "todos" \in doc.keys
    /\ doc.todos_is_list
    /\ \A i \in 1..Len(doc.todos) : WellFormed(doc.todos[i])

C23_ValidateStateIffWellFormed ==
    \A p \in Procs :
        Returned(p, "validate_state") =>
            (proc[p].retb <=> WellFormedDoc(proc[p].arg))

(***************************************************************************)
(* C24.  updated_at is refreshed on every successful save.  As claimed:    *)
(* the updated_at of the persisted document never decreases, in any        *)
(* interleaving of save_state and update_todos calls.  As amended: the     *)
(* document a successful save puts at the path carries the time its own    *)
(* save_state call read from the clock, and nothing else changes what the  *)
(* path holds.                                                             *)
(***************************************************************************)
\* this step gives path f a content it did not have
Replaced(f) ==
    /\ FileExists(f)'
    /\ ~FileExists(f) \/ Content(f)' # Content(f)

\* this step is the rename that ends a successful atomic_write of p
Renames(p) == proc[p].pc = "aw_move" /\ proc'[p].pc = "done" /\ proc'[p].retb

Unlinks(p) ==
    /\ proc[p].pc = "cl_unlink"
    /\ FileExists(proc[p].path)
    /\ ~FileExists(proc[p].path)'

C25_SweepDeletesOnlyStale ==
    [][\A p \in Procs :
          Unlinks(p) =>
              /\ Readable(proc[p].path)
              /\ Persisted(proc[p].path).updated_at.k = "iso"
              /\ Persisted(proc[p].path).updated_at.t < proc[p].cutoff]_vars

(***************************************************************************)
(* C26.  update_todos is the only operation that changes the persisted     *)
(* todos: when update_todos(L) has returned True, no other update_todos    *)
(* call was made and every handler has finished, the persisted todos are   *)
(* the valid items of L, even when a pre-compact handler ran beside the    *)
(* update.                                                                 *)
(***************************************************************************)
C26_OnlyUpdateChangesTodos ==
    \A u \in Procs :
        ( /\ Returned(u, "update_todos") /\ proc[u].retb
          /\ \A h \in Procs \ {u} : proc[h].hpc = "exit" ) =>
            /\ HoldsTodoList(proc[u].path)
            /\ Persisted(proc[u].path).todos = valid_todos(proc[u].items)

(***************************************************************************)
(* C9.  load_state returns a fresh empty document whenever the persisted   *)
(* document has no schema_version or one other than 1.                     *)
(***************************************************************************)
C9_VersionMismatchTreatedAsAbsent ==
    \A p \in Procs :
        ( /\ Returned(p, "load_state")
          /\ Readable(proc[p].path)
          /\ Persisted(proc[p].path).isdict
          /\ \/ "schema_version" \notin Persisted(proc[p].path).keys
             \/ Persisted(proc[p].path).schema_version # SCHEMA_VERSION )
        => /\ proc[p].state.todos = <<>>
           /\ proc[p].state.schema_version = SCHEMA_VERSION

(***************************************************************************)
(* C10.  load_state, get_incomplete_todos and get_in_progress_todos return *)
(* a value for every condition of the state file; none of them raises.     *)
(***************************************************************************)
C10_ReadsNeverRaise ==
    \A p \in Procs :
        proc[p].op \in {"load_state", "get_incomplete_todos", "get_in_progress_todos"}
            => proc[p].pc # "raised"

(***************************************************************************)
(* The files a sweep found when it began (history kept in snap).           *)
(***************************************************************************)
SnapFiles(p) == DOMAIN proc[p].snap.dir

SnapContent(p, f) == proc[p].snap.data[proc[p].snap.dir[f]]

SnapParses(p, f) == Decodable(SnapContent(p, f)) /\ Parses(SnapContent(p, f))

SnapDoc(p, f) == json_load(SnapContent(p, f))

\* a document that parses and whose updated_at is strictly older than the cutoff
SnapStale(p, f) ==
    /\ SnapParses(p, f)
    /\ SnapDoc(p, f).isdict
    /\ "updated_at" \in SnapDoc(p, f).keys
    /\ SnapDoc(p, f).updated_at.k = "iso"
    /\ SnapDoc(p, f).updated_at.t < proc[p].cutoff

\* a file whose processing fails: JSON that is no object, or an updated_at
\* that is no ISO string, no string at all, or timezone-aware
SnapFails(p, f) ==
    /\ SnapParses(p, f)
    /\ \/ ~SnapDoc(p, f).isdict
       \/ /\ "updated_at" \in SnapDoc(p, f).keys
          /\ SnapDoc(p, f).updated_at.k \in {"text", "number", "tz"}

Untouched(p, f) ==
    /\ f \in DOMAIN dir
    /\ data[dir[f]] = SnapContent(p, f)

Deleted(p) == {f \in SnapFiles(p) : f \notin DOMAIN dir}

(***************************************************************************)
(* C7.  A sweep with no concurrent writer deletes exactly the documents    *)
(* that parse and whose updated_at is strictly older than now minus seven  *)
(* days, leaves every other file in place, and returns the number deleted. *)
(***************************************************************************)
C7_SweepDeletesExactlyStale ==
    \A p \in Procs :
        Returned(p, "cleanup_old_states") =>
            /\ \A f \in SnapFiles(p) :
                  IF SnapStale(p, f) THEN f \notin DOMAIN dir ELSE Untouched(p, f)
            /\ proc[p].removed = Cardinality(Deleted(p))

(***************************************************************************)
(* C8.  A file whose processing fails is left untouched and does not abort *)
(* the sweep: every other stale document of the sweep is deleted and       *)
(* counted.                                                                *)
(***************************************************************************)
C8_FailureIsolatedInSweep ==
    \A p \in Procs :
        Returned(p, "cleanup_old_states") =>
            \A f \in SnapFiles(p) :
                SnapFails(p, f) =>
                    /\ Untouched(p, f)
                    /\ \A g \in SnapFiles(p) \ {f} : SnapStale(p, g) => g \notin DOMAIN dir
                    /\ proc[p].removed = Cardinality({g \in SnapFiles(p) : SnapStale(p, g)})


(***************************************************************************)
(* C27.  The session-start handler, for any source, emits additional       *)
(* context that lists every incomplete todo of the persisted document in   *)
(* persisted order.  As claimed: whenever the document the handler finds   *)
(* holds an incomplete todo.  As amended: whenever that document passes    *)
(* validate_state, holds an incomplete todo and is still in place after    *)
(* the retention sweep with which a startup run begins.                    *)
(***************************************************************************)
\* the project's state file held, when handler p began, a JSON object with
\* a list of todos of which one at least is pending or in_progress
FoundIncomplete(p) ==
    LET f == get_state_file(proc[p].root)
    IN  /\ f \in SnapFiles(p)
        /\ SnapParses(p, f)
        /\ SnapDoc(p, f).isdict
        /\ "todos" \in SnapDoc(p, f).keys
        /\ SnapDoc(p, f).todos_is_list
        /\ \E i \in 1..Len(SnapDoc(p, f).todos) : WantIncomplete(SnapDoc(p, f).todos[i])

\* the handler printed a context with the incomplete todos it found, in order
ListsIncomplete(p) ==
    /\ proc[p].code = 0
    /\ proc[p].out = "context"
    /\ proc[p].ctx.todos
          = SelectSeq(SnapDoc(p, get_state_file(proc[p].root)).todos, WantIncomplete)

C27_Original_ContextForEveryIncomplete ==
    \A p \in Procs :
        (Exited(p, "session_start") /\ proc[p].inp.kind = "object" /\ FoundIncomplete(p))
            => ListsIncomplete(p)

C27_ContextForValidKeptDocument ==
    \A p \in Procs :
        ( /\ Exited(p, "session_start") /\ proc[p].inp.kind = "object"
          /\ FoundIncomplete(p)
          /\ validate_state(SnapDoc(p, get_state_file(proc[p].root)))
          /\ FileExists(get_state_file(proc[p].root)) )
            => ListsIncomplete(p)

\* a startup run has swept the stale file of the other project and listed
\* the three incomplete todos of its own
C27_Witness ==
    \E p \in Procs :
        /\ Exited(p, "session_start") /\ OnStartup(p)
        /\ proc[p].removed > 0
        /\ FoundIncomplete(p)
        /\ proc[p].out = "context"
        /\ proc[p].ctx.todos = <<tA, tB, tA>>

(***************************************************************************)
(* C28.  In every execution of atomic_write the steps come in the order    *)
(* temp file, exclusive lock, serialization, flush, fsync, unlock, rename; *)
(* the rename is reached only after the fsync returned, and the target     *)
(* path never holds data that was not forced to stable storage: what a     *)
(* state file holds changes only by the rename of a temp file whose text   *)
(* is complete and went through flush and fsync.                           *)
(***************************************************************************)
\* the step of atomic_write that comes before position pc
StepBefore(pc) ==
    CASE pc = "aw_lock" -> "aw_mkstemp"
      [] pc = "aw_dump" -> "aw_lock"
      [] pc = "aw_flush" -> "aw_dump"
      [] pc = "aw_fsync" -> "aw_flush"
      [] pc = "aw_unlock" -> "aw_fsync"
      [] pc = "aw_move" -> "aw_unlock"

\* a process comes to a position of lines 152-160 only from the one before
StepsInOrder ==
    \A p \in Procs :
        ( /\ proc'[p].pc # proc[p].pc
          /\ proc'[p].pc \in {"aw_lock", "aw_dump", "aw_flush", "aw_fsync",
                              "aw_unlock", "aw_move"} )
            => proc[p].pc = StepBefore(proc'[p].pc)

\* what a state file holds changes only when a process that went through
\* the fsync renames its complete temp file onto it
TargetOnlySynced ==
    \A f \in StateFiles :
        ((FileExists(f) /\ ~FileExists(f)') \/ Replaced(f)) =>
            \E p \in Procs :
                /\ Renames(p)
                /\ proc[p].path = f
                /\ Content(f)' = json_dump(proc[p].state)

C28_OrderedAndOnlySyncedDataAtTarget ==
    [][StepsInOrder /\ TargetOnlySynced]_vars

(***************************************************************************)
(* C29.  update_todos on a project whose state file holds a document that  *)
(* passes validate_state changes only todos, updated_at and session_id:    *)
(* created_at, project_id, project_name, schema_version, last_compact and  *)
(* compact_trigger of the persisted document, and the fields it has, are   *)
(* after the call what they were before.                                   *)
(***************************************************************************)
\* the state file of p held a valid document when its atomic_write began
ValidBefore(p) ==
    /\ proc[p].path \in SnapFiles(p)
    /\ SnapParses(p, proc[p].path)
    /\ validate_state(SnapDoc(p, proc[p].path))

FrameFields(d) ==
    [created_at |-> d.created_at, project_id |-> d.project_id,
     project_name |-> d.project_name, schema_version |-> d.schema_version,
     last_compact |-> d.last_compact, compact_trigger |-> d.compact_trigger,
     keys |-> d.keys \ {"todos"}]

C29_UpdateKeepsOtherFields ==
    \A p \in Procs :
        (Returned(p, "update_todos") /\ proc[p].retb /\ ValidBefore(p)) =>
            /\ Readable(proc[p].path)
            /\ FrameFields(Persisted(proc[p].path))
                  = FrameFields(SnapDoc(p, proc[p].path))

\* an update has replaced the todos of the document that carries the
\* advisory flags of a compaction, under another session
C29_Witness ==
    \E p \in Procs :
        /\ Returned(p, "update_todos") /\ proc[p].retb
        /\ ValidBefore(p)
        /\ SnapDoc(p, proc[p].path) = dFlag
        /\ Persisted(proc[p].path).last_compact
        /\ Persisted(proc[p].path).compact_trigger = "auto"
        /\ Persisted(proc[p].path).todos # dFlag.todos
        /\ Persisted(proc[p].path).session_id # dFlag.session_id
        /\ Persisted(proc[p].path).updated_at # dFlag.updated_at

(***************************************************************************)
(* C30.  Under fair scheduling every load_state, save_state, update_todos  *)
(* and cleanup_old_states call returns, whatever the other processes of    *)
(* the project do meanwhile: no call waits forever for an advisory lock    *)
(* and no set of calls deadlocks.                                          *)
(***************************************************************************)
C30_EveryCallReturns ==
    \A p \in LiveProcs :
        (proc[p].pc \notin Resting) ~> (proc[p].pc \in {"done", "raised"})

\* an update and a sweep that ran together have both returned: the sweep
\* read the stale document, the update replaced it and returned True, and
\* the sweep then unlinked the file
C30_Witness ==
    \E p, q \in Procs :
        /\ Returned(p, "update_todos") /\ proc[p].retb
        /\ Returned(q, "cleanup_old_states") /\ proc[q].removed = 1
        /\ WasThere(p, proc[p].path)
        /\ ~FileExists(proc[p].path)

(***************************************************************************)
(* C31.  The stop handler and the user-prompt handler only read the todo   *)
(* state: for every input and whatever the project's state file holds,     *)
(* the file exists after the handler has exited exactly if it existed when *)
(* the handler started, and holds the same bytes.                          *)
(***************************************************************************)
ReadOnlyHooks == {"stop", "user_prompt"}

C31_StopAndPromptLeaveStateFile ==
    \A p \in Procs :
        (proc[p].hook \in ReadOnlyHooks /\ proc[p].hpc = "exit") =>
            Before(get_state_file(proc[p].root)) = proc[p].snap

\* the stop handler found a task in progress in the state file and blocked
\* the stop, and the file is what it was
C31_Witness ==
    \E p \in Procs :
        /\ Exited(p, "stop")
        /\ proc[p].out = "block"
        /\ WasThere(p, get_state_file(proc[p].root))
        /\ Content(get_state_file(proc[p].root)) = json_dump(dFull)
        /\ Before(get_state_file(proc[p].root)) = proc[p].snap

(***************************************************************************)
(* C32.  The todo-enforcer reads the file that update_todos writes for the *)
(* same project root: when update_todos has persisted a list with an       *)
(* incomplete item under root R and returned, an enforcer started          *)
(* afterwards under R for a prompt prints a previous-session-todos block   *)
(* that lists every such item.                                             *)
(***************************************************************************)
\* enforcer e was started for a prompt after update_todos of u had returned
\* True under the same root
RanAfterUpdate(e, u) ==
    /\ proc[e].op = "todo_enforcer" /\ proc[e].pc \in {"done", "raised"}
    /\ proc[e].inp.kind = "object" /\ proc[e].inp.prompt # "other"
    /\ u \in proc[e].after
    /\ Returned(u, "update_todos") /\ proc[u].retb
    /\ proc[u].root = proc[e].root

C32_EnforcerListsPersistedTodos ==
    \A e, u \in Procs :
        RanAfterUpdate(e, u) =>
            \A i \in 1..Len(proc[u].items) :
                (validate_todo(proc[u].items[i]) /\ IsIncomplete(proc[u].items[i])) =>
                    /\ proc[e].out = "context"
                    /\ \E j \in 1..Len(proc[e].hinc) : proc[e].hinc[j] = proc[u].items[i]
====
